---- MODULE Spec2Model ----
(***************************************************************************)
(* Model of the smart command parser of pdfbuddy                           *)
(* (backend/app/services/command_parser.py).                               *)
(*                                                                         *)
(* Python strings are TLA+ strings; a character is a string of length 1.   *)
(* Regular expressions are syntax trees matched by a backtracking matcher  *)
(* that tries the alternatives in the order of Python's re module, so the  *)
(* match it returns, and its groups, are those of pattern.match(command).  *)
(***************************************************************************)
EXTENDS Integers, Sequences, FiniteSets, TLC

VARIABLES command, context, pc, result, error, fmt, registry, disk, http, shared, calls, limiter, lifecycle

vars == <<command, context, pc, result, error, fmt, registry, disk, http, shared, calls, limiter, lifecycle>>

----------------------------------------------------------------------------
(* Characters and strings                                                  *)

At(s, i) == SubSeq(s, i, i)

Whitespace == {" ", "\t", "\n", "\r", "\f"}

DigitChars == "0123456789"

Digits == {At(DigitChars, k) : k \in 1..10}

UpperChars == "ABCDEFGHIJKLMNOPQRSTUVWXYZ"

LowerChars == "abcdefghijklmnopqrstuvwxyz"

UpperSet == {At(UpperChars, k) : k \in 1..26}

ToLower == [c \in UpperSet |-> At(LowerChars, CHOOSE k \in 1..26 : At(UpperChars, k) = c)]

LowerChar(c) == IF c \in UpperSet THEN ToLower[c] ELSE c

RECURSIVE Lower(_)
Lower(s) == IF Len(s) = 0 THEN "" ELSE LowerChar(At(s, 1)) \o Lower(SubSeq(s, 2, Len(s)))

RECURSIVE LStrip(_)
LStrip(s) == IF Len(s) > 0 /\ At(s, 1) \in Whitespace THEN LStrip(SubSeq(s, 2, Len(s))) ELSE s

RECURSIVE RStrip(_)
RStrip(s) == IF Len(s) > 0 /\ At(s, Len(s)) \in Whitespace THEN RStrip(SubSeq(s, 1, Len(s) - 1)) ELSE s

Strip(s) == RStrip(LStrip(s))

Contains(s, sub) == \E i \in 1..(Len(s) - Len(sub) + 1) : SubSeq(s, i, i + Len(sub) - 1) = sub

IndexOf(s, sub) == CHOOSE i \in 1..(Len(s) - Len(sub) + 1) :
                      /\ SubSeq(s, i, i + Len(sub) - 1) = sub
                      /\ \A j \in 1..(i - 1) : SubSeq(s, j, j + Len(sub) - 1) # sub

Count(s, c) == Cardinality({i \in 1..Len(s) : At(s, i) = c})

Range(lo, hi) == [k \in 1..(hi - lo) |-> lo + k - 1]

----------------------------------------------------------------------------
(* int() and str()                                                         *)

DigitVal(c) == (CHOOSE k \in 1..10 : At(DigitChars, k) = c) - 1

RECURSIVE DigitsVal(_)
DigitsVal(s) == IF Len(s) = 0 THEN 0
                ELSE IF At(s, Len(s)) = "_" THEN DigitsVal(SubSeq(s, 1, Len(s) - 1))
                ELSE DigitsVal(SubSeq(s, 1, Len(s) - 1)) * 10 + DigitVal(At(s, Len(s)))

(* The digit strings int() accepts: digits, single underscores between them *)
AllDigits(s) == /\ Len(s) > 0
                /\ \A i \in 1..Len(s) : At(s, i) \in Digits \cup {"_"}
                /\ At(s, 1) # "_" /\ At(s, Len(s)) # "_"
                /\ \A i \in 1..(Len(s) - 1) : ~(At(s, i) = "_" /\ At(s, i + 1) = "_")

IntBody(s) == LET t == Strip(s) IN
              IF Len(t) > 0 /\ At(t, 1) \in {"+", "-"} THEN SubSeq(t, 2, Len(t)) ELSE t

IsInt(s) == AllDigits(IntBody(s))

ParseInt(s) == LET t == Strip(s) IN
               IF Len(t) > 0 /\ At(t, 1) = "-" THEN 0 - DigitsVal(IntBody(s)) ELSE DigitsVal(IntBody(s))

RECURSIVE NatToStr(_)
NatToStr(n) == IF n < 10 THEN At(DigitChars, n + 1)
               ELSE NatToStr(n \div 10) \o At(DigitChars, (n % 10) + 1)

IntToStr(n) == IF n < 0 THEN "-" \o NatToStr(0 - n) ELSE NatToStr(n)

----------------------------------------------------------------------------
(* Regular expressions                                                     *)

Lit(s) == [t |-> "lit", s |-> s]

Cls(k) == [t |-> "cls", k |-> k, set |-> {}]

OneOf(set) == [t |-> "cls", k |-> "set", set |-> set]

Alt(a) == [t |-> "alt", a |-> a]

Rep(r, min, max, greedy) == [t |-> "rep", r |-> r, min |-> min, max |-> max, greedy |-> greedy]

Grp(k, r) == [t |-> "grp", k |-> k, r |-> r]

Close(k, start) == [t |-> "close", k |-> k, start |-> start]

EndAnchor == [t |-> "end"]

Opt(r) == Rep(r, 0, 1, TRUE)

Words(ws) == Alt([k \in 1..Len(ws) |-> <<Lit(ws[k])>>])

Sp1 == Rep(<<Cls("space")>>, 1, -1, TRUE)

Sp0 == Rep(<<Cls("space")>>, 0, -1, TRUE)

Digits1 == Rep(<<Cls("digit")>>, 1, -1, TRUE)

AnyPlus == Rep(<<Cls("any")>>, 1, -1, TRUE)

AnyPlusLazy == Rep(<<Cls("any")>>, 1, -1, FALSE)

PagesQ == <<Lit("page"), Opt(<<Lit("s")>>)>>

OptQuote == Opt(<<OneOf({"\"", "'"})>>)

ClassHas(n, c) == CASE n.k = "any" -> c # "\n"
                    [] n.k = "space" -> c \in Whitespace
                    [] n.k = "digit" -> c \in Digits
                    [] n.k = "set" -> c \in n.set

NoGroups == <<<<0, 0>>, <<0, 0>>, <<0, 0>>>>

NoMatch == [ok |-> FALSE, end |-> 0, g |-> NoGroups, last |-> 0]

RunLen(s, n, i) == LET stop == {j \in i..Len(s) : ~ClassHas(n, At(s, j))}
                   IN IF stop = {} THEN Len(s) - i + 1
                      ELSE (CHOOSE j \in stop : \A j2 \in stop : j <= j2) - i

IsClassRep(n) == Len(n.r) = 1 /\ n.r[1].t = "cls"

RECURSIVE M(_, _, _, _, _)
RECURSIVE TryRep(_, _, _, _, _, _, _, _, _)

(* A repetition of one character class: the run lengths k in lo..hi are    *)
(* tried longest first when greedy, shortest first when lazy.              *)
TryRep(s, rest, i, g, last, k, lo, hi, greedy) ==
    LET r == M(s, rest, i + k, g, last)
    IN IF r.ok THEN r
       ELSE IF greedy THEN (IF k = lo THEN NoMatch ELSE TryRep(s, rest, i, g, last, k - 1, lo, hi, greedy))
       ELSE (IF k = hi THEN NoMatch ELSE TryRep(s, rest, i, g, last, k + 1, lo, hi, greedy))

(* The first match, in backtracking order, of the node list at position i  *)
M(s, nodes, i, g, last) ==
    IF Len(nodes) = 0 THEN [ok |-> TRUE, end |-> i, g |-> g, last |-> last]
    ELSE LET n == Head(nodes)
             rest == Tail(nodes)
         IN CASE n.t = "lit" ->
                   IF i + Len(n.s) - 1 <= Len(s) /\ Lower(SubSeq(s, i, i + Len(n.s) - 1)) = n.s
                   THEN M(s, rest, i + Len(n.s), g, last) ELSE NoMatch
              [] n.t = "cls" ->
                   IF i <= Len(s) /\ ClassHas(n, At(s, i))
                   THEN M(s, rest, i + 1, g, last) ELSE NoMatch
              [] n.t = "alt" ->
                   IF Len(n.a) = 0 THEN NoMatch
                   ELSE LET first == M(s, Head(n.a) \o rest, i, g, last)
                        IN IF first.ok THEN first
                           ELSE M(s, <<Alt(Tail(n.a))>> \o rest, i, g, last)
              [] n.t = "rep" ->
                   IF IsClassRep(n)
                   THEN LET run == RunLen(s, n.r[1], i)
                            hi == IF n.max = -1 \/ run < n.max THEN run ELSE n.max
                        IN IF hi < n.min THEN NoMatch
                           ELSE TryRep(s, rest, i, g, last, IF n.greedy THEN hi ELSE n.min,
                                       n.min, hi, n.greedy)
                   ELSE LET again == [n EXCEPT !.min = IF @ > 0 THEN @ - 1 ELSE 0,
                                               !.max = IF @ = -1 THEN -1 ELSE @ - 1]
                            body == IF again.max = 0 THEN n.r \o rest ELSE n.r \o <<again>> \o rest
                        IN IF n.min > 0 THEN M(s, body, i, g, last)
                           ELSE IF n.max = 0 THEN M(s, rest, i, g, last)
                           ELSE IF n.greedy
                                THEN LET more == M(s, body, i, g, last)
                                     IN IF more.ok THEN more ELSE M(s, rest, i, g, last)
                                ELSE LET skip == M(s, rest, i, g, last)
                                     IN IF skip.ok THEN skip ELSE M(s, body, i, g, last)
              [] n.t = "grp" -> M(s, n.r \o <<Close(n.k, i)>> \o rest, i, g, last)
              [] n.t = "close" -> M(s, rest, i, [g EXCEPT ![n.k] = <<n.start, i>>], n.k)
              [] n.t = "end" ->
                   IF i = Len(s) + 1 \/ (i = Len(s) /\ At(s, i) = "\n")
                   THEN M(s, rest, i, g, last) ELSE NoMatch

Match(re, s) == M(s, re, 1, NoGroups, 0)

HasGroup(m, k) == m.g[k][1] # 0

Group(s, m, k) == SubSeq(s, m.g[k][1], m.g[k][2] - 1)

Group0(s, m) == SubSeq(s, 1, m.end - 1)

Truthy(s, m, k) == HasGroup(m, k) /\ Len(Group(s, m, k)) > 0

----------------------------------------------------------------------------
(* The pattern table, in declaration order: intent, expression, extractor  *)

The == Opt(<<Lit("the"), Sp1>>)

FromPages == Opt(<<Sp1, Lit("from"), Sp1, Opt(PagesQ \o <<Sp1>>), Grp(1, <<AnyPlus>>)>>)

Pat(intent, re, extractor) == [intent |-> intent, re |-> re, extractor |-> extractor]

MetadataPattern(field) ==
    <<Words(<<"set", "change", "update">>), Sp1, The, Lit(field), Sp1, Opt(<<Lit("to"), Sp1>>),
      OptQuote, Grp(1, <<AnyPlusLazy>>), OptQuote, EndAnchor>>

COMMAND_PATTERNS == <<
    Pat("remove_pages",
        <<Words(<<"remove", "delete", "drop", "get rid of", "take out">>), Sp1,
          Opt(PagesQ \o <<Sp1>>), Grp(1, <<AnyPlus>>)>>,
        "extract_pages"),
    Pat("remove_pages",
        <<Words(<<"remove", "delete">>), Sp1, The, Words(<<"last", "first">>), Sp1,
          Grp(1, <<Digits1>>), Sp1>> \o PagesQ,
        "extract_relative_pages"),
    Pat("rotate_pages",
        <<Lit("rotate"), Sp1, Opt(PagesQ \o <<Sp1>>), Opt(<<Grp(1, <<AnyPlusLazy>>)>>), Sp0,
          Opt(<<Lit("by"), Sp1>>), Opt(<<Grp(2, <<Digits1>>)>>), Sp0,
          Opt(<<Lit("degree"), Opt(<<Lit("s")>>)>>),
          Opt(<<Sp1, Grp(3, <<Words(<<"clockwise", "counterclockwise", "left", "right">>)>>)>>)>>,
        "extract_rotation"),
    Pat("rotate_pages",
        <<Lit("turn"), Sp1, Opt(PagesQ \o <<Sp1>>), Opt(<<Grp(1, <<AnyPlusLazy>>)>>), Sp1,
          Grp(2, <<Words(<<"clockwise", "counterclockwise", "right", "left", "upside down">>)>>)>>,
        "extract_rotation_direction"),
    Pat("rotate_pages",
        <<Lit("flip"), Sp1, Opt(PagesQ \o <<Sp1>>), Opt(<<Grp(1, <<AnyPlusLazy>>)>>), Sp0,
          Opt(<<Lit("upside down")>>)>>,
        "extract_flip"),
    Pat("add_watermark",
        <<Opt(<<Lit("add"), Sp1>>), Opt(<<Lit("a"), Sp1>>), Lit("watermark"), Sp1,
          Opt(<<Alt(<< <<Lit("saying"), Sp1>>,
                       <<Lit("with"), Sp1, Opt(<<Lit("text"), Sp1>>)>>,
                       <<Lit("text"), Sp1>> >>)>>),
          OptQuote, Grp(1, <<AnyPlusLazy>>), OptQuote,
          Opt(<<Sp1, Opt(<<Lit("at"), Sp1>>), Grp(2, <<Digits1>>), Opt(<<Lit("%")>>), Sp0,
                Opt(<<Lit("opacity")>>)>>),
          EndAnchor>>,
        "extract_watermark"),
    Pat("add_watermark",
        <<Lit("watermark"), Sp1, Opt(<<Lit("all"), Sp1>>), Opt(PagesQ \o <<Sp1>>),
          Opt(<<Lit("with"), Sp1>>), OptQuote, Grp(1, <<AnyPlusLazy>>), OptQuote, EndAnchor>>,
        "extract_watermark_simple"),
    Pat("add_watermark",
        <<Words(<<"add", "put">>), Sp1, OneOf({"\"", "'"}), Grp(1, <<AnyPlusLazy>>),
          OneOf({"\"", "'"}), Sp1, Opt(<<Lit("as"), Sp1>>), Opt(<<Lit("a"), Sp1>>),
          Lit("watermark")>>,
        "extract_watermark_quoted"),
    Pat("encrypt",
        <<Alt(<< <<Lit("encrypt")>>, <<Lit("protect")>>,
                 <<Lit("password"), Opt(<<OneOf({"-", " "})>>), Lit("protect")>>,
                 <<Lit("lock")>> >>),
          Sp1, Opt(<<Lit("with"), Sp1>>), Opt(<<Lit("password"), Sp1>>),
          OptQuote, Grp(1, <<AnyPlusLazy>>), OptQuote, EndAnchor>>,
        "extract_password"),
    Pat("encrypt",
        <<Words(<<"add", "set">>), Sp1, Opt(<<Lit("a"), Sp1>>), Lit("password"), Sp1,
          OptQuote, Grp(1, <<AnyPlusLazy>>), OptQuote, EndAnchor>>,
        "extract_password"),
    Pat("encrypt",
        <<Words(<<"secure", "lock">>), Sp1, The, Words(<<"document", "pdf", "file">>),
          Opt(<<Sp1, Lit("with"), Sp1, OptQuote, Grp(1, <<AnyPlusLazy>>), OptQuote>>),
          EndAnchor>>,
        "extract_password_optional"),
    Pat("split",
        <<Lit("split"), Sp1, Opt(<<Lit("into"), Sp1>>),
          Opt(<<Alt(<< <<Lit("individual"), Sp1>>, <<Lit("separate"), Sp1>> >>)>>)>> \o PagesQ,
        "extract_split_individual"),
    Pat("split",
        <<Lit("split"), Sp1, Words(<<"every", "each">>), Sp1, Grp(1, <<Digits1>>), Sp1>> \o PagesQ,
        "extract_split_count"),
    Pat("split",
        <<Lit("split"), Sp1, Opt(<<Lit("at"), Sp1>>)>> \o PagesQ \o <<Sp1, Grp(1, <<AnyPlus>>)>>,
        "extract_split_at"),
    Pat("split",
        <<Words(<<"extract", "separate">>), Sp1>> \o PagesQ \o
        <<Sp1, Grp(1, <<AnyPlusLazy>>),
          Opt(<<Sp1, Words(<<"as", "into">>), Sp1, Opt(<<Lit("a"), Sp1>>),
                Words(<<"separate", "new">>), Sp1, Words(<<"file", "pdf">>)>>)>>,
        "extract_split_pages"),
    Pat("add_blank_page",
        <<Words(<<"add", "insert">>), Sp1, Opt(<<Lit("a"), Sp1>>), Lit("blank"), Sp1, Lit("page"),
          Sp1, Opt(<<Lit("at"), Sp1>>), Opt(<<Lit("position"), Sp1>>), Grp(1, <<Digits1>>)>>,
        "extract_position"),
    Pat("add_blank_page",
        <<Words(<<"add", "insert">>), Sp1, Opt(<<Lit("a"), Sp1>>), Lit("blank"), Sp1, Lit("page"),
          Sp1, Words(<<"after", "before">>), Sp1, Opt(<<Lit("page"), Sp1>>), Grp(1, <<Digits1>>)>>,
        "extract_position_relative"),
    Pat("add_blank_page",
        <<Words(<<"add", "insert">>), Sp1, Opt(<<Lit("a"), Sp1>>), Opt(<<Lit("new"), Sp1>>),
          Words(<<"empty", "blank">>), Sp1, Lit("page"),
          Opt(<<Sp1, Opt(<<Lit("at"), Sp1>>), The, Words(<<"end", "beginning", "start">>)>>)>>,
        "extract_position_keyword"),
    Pat("extract_text",
        <<Words(<<"extract", "get", "copy", "grab", "pull">>), Sp1, Opt(<<Lit("all"), Sp1>>), The,
          Lit("text"), FromPages>>,
        "extract_text_pages"),
    Pat("extract_text",
        <<Words(<<"copy", "get">>), Sp1, The, Words(<<"text", "content">>), FromPages>>,
        "extract_text_pages"),
    Pat("ocr",
        <<Alt(<< <<Lit("ocr")>>, <<Lit("recognize"), Sp1, Lit("text"), Sp1, Lit("in")>> >>), Sp1,
          Opt(<<Lit("this"), Sp1>>), Opt(<<Words(<<"document", "pdf", "file">>)>>),
          Opt(<<Sp1, Opt(PagesQ \o <<Sp1>>), Grp(1, <<AnyPlus>>)>>)>>,
        "extract_ocr_pages"),
    Pat("ocr",
        <<Words(<<"make", "convert">>), Sp1, Opt(<<Lit("this"), Sp1>>), Opt(<<Lit("pdf"), Sp1>>),
          Lit("searchable")>>,
        "extract_ocr_searchable"),
    Pat("ocr",
        <<Words(<<"extract", "recognize">>), Sp1, Lit("text"), Sp1, Opt(<<Lit("from"), Sp1>>),
          Opt(<<Lit("scanne"), Opt(<<Lit("d")>>), Sp1>>),
          Alt(<< <<Lit("image"), Opt(<<Lit("s")>>)>>, PagesQ >>)>>,
        "extract_ocr_simple"),
    Pat("update_metadata", MetadataPattern("title"), "extract_metadata_title"),
    Pat("update_metadata", MetadataPattern("author"), "extract_metadata_author"),
    Pat("update_metadata", MetadataPattern("subject"), "extract_metadata_subject"),
    Pat("reorder_pages",
        <<Words(<<"reorder", "rearrange">>), Sp1>> \o PagesQ \o
        <<Sp1, Words(<<"to", "as">>), Sp1, Grp(1, <<AnyPlus>>)>>,
        "extract_new_order"),
    Pat("reorder_pages",
        <<Words(<<"move", "put">>), Sp1, Lit("page"), Sp1, Grp(1, <<Digits1>>), Sp1,
          Opt(<<Lit("to"), Sp1>>), Opt(<<Lit("position"), Sp1>>), Grp(2, <<Digits1>>)>>,
        "extract_move_page"),
    Pat("reorder_pages",
        <<Words(<<"swap", "switch">>), Sp1>> \o PagesQ \o
        <<Sp1, Grp(1, <<Digits1>>), Sp1, Words(<<"and", "with">>), Sp1, Grp(2, <<Digits1>>)>>,
        "extract_swap_pages"),
    Pat("extract_images",
        <<Words(<<"extract", "get", "save", "export">>), Sp1, Opt(<<Lit("all"), Sp1>>), The,
          Lit("image"), Opt(<<Lit("s")>>), FromPages>>,
        "extract_image_pages"),
    Pat("extract_tables",
        <<Words(<<"extract", "get", "export">>), Sp1, Opt(<<Lit("all"), Sp1>>), The,
          Lit("table"), Opt(<<Lit("s")>>), FromPages>>,
        "extract_table_pages") >>

----------------------------------------------------------------------------
(* Page expressions                                                        *)

Separators == Whitespace \cup {","}

(* re.split(r'[,\s]+', s): the pieces between the runs of separators       *)
RECURSIVE SplitFrom(_, _, _, _)
SplitFrom(s, i, cur, acc) ==
    IF i > Len(s) THEN Append(acc, cur)
    ELSE IF At(s, i) \in Separators
         THEN IF i > 1 /\ At(s, i - 1) \in Separators
              THEN SplitFrom(s, i + 1, cur, acc)
              ELSE SplitFrom(s, i + 1, "", Append(acc, cur))
         ELSE SplitFrom(s, i + 1, cur \o At(s, i), acc)

Split(s) == SplitFrom(s, 1, "", <<>>)

AllPages(max_pages) == Range(1, max_pages + 1)

RECURSIVE SortedSeq(_)
SortedSeq(S) == IF S = {} THEN <<>>
                ELSE LET lo == CHOOSE x \in S : \A y \in S : x <= y
                     IN <<lo>> \o SortedSeq(S \ {lo})

Elems(seq) == {seq[k] : k \in 1..Len(seq)}

(* PartPages with range(start, end) in place of range(start, end + 1)      *)
PartPages_exclusive(part) ==
    IF Contains(part, "-")
    THEN IF Count(part, "-") # 1 THEN <<>>
         ELSE LET cut == IndexOf(part, "-")
                  start == SubSeq(part, 1, cut - 1)
                  end == SubSeq(part, cut + 1, Len(part))
              IN IF IsInt(start) /\ IsInt(end)
                 THEN Range(ParseInt(start), ParseInt(end))
                 ELSE <<>>
    ELSE IF IsInt(part) THEN <<ParseInt(part)>> ELSE <<>>

(* The pages one part adds; a part that raises ValueError adds none        *)
PartPages(part) ==
    IF Contains(part, "-")
    THEN IF Count(part, "-") # 1 THEN <<>>
         ELSE LET cut == IndexOf(part, "-")
                  start == SubSeq(part, 1, cut - 1)
                  end == SubSeq(part, cut + 1, Len(part))
              IN IF IsInt(start) /\ IsInt(end)
                 THEN Range(ParseInt(start), ParseInt(end) + 1)
                 ELSE <<>>
    ELSE IF IsInt(part) THEN <<ParseInt(part)>> ELSE <<>>

(* CollectPages with a malformed part ending the loop (break for continue) *)
RECURSIVE CollectPages_stopping(_, _)
CollectPages_stopping(parts, k) ==
    IF k > Len(parts) THEN <<>>
    ELSE LET part == Strip(parts[k])
         IN IF Len(part) = 0 THEN CollectPages_stopping(parts, k + 1)
            ELSE IF PartPages(part) = <<>> THEN <<>>
            ELSE PartPages(part) \o CollectPages_stopping(parts, k + 1)

RECURSIVE CollectPages(_, _)
CollectPages(parts, k) ==
    IF k > Len(parts) THEN <<>>
    ELSE LET part == Strip(parts[k])
         IN (IF Len(part) = 0 THEN <<>> ELSE PartPages(part)) \o CollectPages(parts, k + 1)

(* _parse_page_range without the filter to [1, max_pages]                  *)
_parse_page_range_unfiltered(range_str, max_pages) ==
    IF Len(range_str) = 0 THEN AllPages(max_pages)
    ELSE LET str == Strip(range_str)
         IN IF Lower(str) = "all" THEN AllPages(max_pages)
            ELSE SortedSeq(Elems(CollectPages(Split(str), 1)))

_parse_page_range(range_str, max_pages) ==
    IF Len(range_str) = 0 THEN AllPages(max_pages)
    ELSE LET str == Strip(range_str)
         IN IF Lower(str) = "all" THEN AllPages(max_pages)
            ELSE LET pages == CollectPages(Split(str), 1)
                 IN SortedSeq({p \in Elems(pages) : 1 <= p /\ p <= max_pages})

RECURSIVE CollectList(_, _)
CollectList(parts, k) ==
    IF k > Len(parts) THEN <<>>
    ELSE (IF IsInt(parts[k]) THEN <<ParseInt(parts[k])>> ELSE <<>>) \o CollectList(parts, k + 1)

_parse_page_list(list_str) == CollectList(Split(list_str), 1)

----------------------------------------------------------------------------
(* Parameter extractors.  Each returns the parameters or the exception it  *)
(* raises.  A parameters dict is a function from its keys to their values. *)

(* Python's None as the value of "pages": no page list holds -1 alone      *)
None == <<-1>>

Returns(params) == [exc |-> "", params |-> params]

Raises(exc) == [exc |-> exc, params |-> <<>>]

(* match.lastindex >= k: comparing None with an int raises TypeError       *)
LastIndexIsNone(m) == m.last = 0

ListMin(seq) == CHOOSE x \in Elems(seq) : \A y \in Elems(seq) : x <= y

ListMax(seq) == CHOOSE x \in Elems(seq) : \A y \in Elems(seq) : x >= y

PagesOrAll(s, m, ctx) == IF Truthy(s, m, 1) THEN _parse_page_range(Group(s, m, 1), ctx.num_pages)
                         ELSE AllPages(ctx.num_pages)

_extract_pages(s, m, ctx) ==
    Returns("pages" :> _parse_page_range(Group(s, m, 1), ctx.num_pages))

_extract_relative_pages(s, m, ctx) ==
    LET count == ParseInt(Group(s, m, 1))
    IN IF Contains(Lower(Group0(s, m)), "last")
       THEN Returns("pages" :> Range(ctx.num_pages - count + 1, ctx.num_pages + 1))
       ELSE Returns("pages" :> Range(1, count + 1))

_extract_rotation(s, m, ctx) ==
    IF LastIndexIsNone(m) THEN Raises("TypeError")
    ELSE LET direction == IF m.last >= 3 /\ HasGroup(m, 3) THEN Lower(Group(s, m, 3)) ELSE ""
             rotation == IF Truthy(s, m, 2) THEN ParseInt(Group(s, m, 2))
                         ELSE IF Len(direction) > 0
                              THEN (IF direction \in {"counterclockwise", "left"} THEN 270
                                    ELSE IF direction \in {"clockwise", "right"} THEN 90
                                    ELSE 90)
                              ELSE 90
         IN Returns(("pages" :> PagesOrAll(s, m, ctx)) @@ ("rotation" :> rotation))

rotation_map == ("clockwise" :> 90) @@ ("right" :> 90) @@ ("counterclockwise" :> 270)
                @@ ("left" :> 270) @@ ("upside down" :> 180)

_extract_rotation_direction(s, m, ctx) ==
    LET direction == Lower(Group(s, m, 2))
        rotation == IF direction \in DOMAIN rotation_map THEN rotation_map[direction] ELSE 90
    IN Returns(("pages" :> PagesOrAll(s, m, ctx)) @@ ("rotation" :> rotation))

_extract_flip(s, m, ctx) ==
    Returns(("pages" :> PagesOrAll(s, m, ctx)) @@ ("rotation" :> 180))

(* Opacities are exact fractions <<numerator, denominator>>                *)
DefaultOpacity == <<3, 10>>

_extract_watermark(s, m, ctx) ==
    IF LastIndexIsNone(m) THEN Raises("TypeError")
    ELSE LET opacity == IF m.last >= 2 /\ Truthy(s, m, 2)
                        THEN <<ParseInt(Group(s, m, 2)), 100>> ELSE DefaultOpacity
         IN Returns(("text" :> Strip(Group(s, m, 1))) @@ ("opacity" :> opacity))

_extract_watermark_simple(s, m, ctx) ==
    Returns(("text" :> Strip(Group(s, m, 1))) @@ ("opacity" :> DefaultOpacity))

_extract_watermark_quoted(s, m, ctx) ==
    Returns(("text" :> Strip(Group(s, m, 1))) @@ ("opacity" :> DefaultOpacity))

_extract_password(s, m, ctx) ==
    Returns("user_password" :> (IF Truthy(s, m, 1) THEN Strip(Group(s, m, 1)) ELSE ""))

_extract_password_optional(s, m, ctx) ==
    IF LastIndexIsNone(m) THEN Raises("TypeError")
    ELSE LET password == IF m.last >= 1 /\ Truthy(s, m, 1) THEN Strip(Group(s, m, 1)) ELSE ""
         IN Returns(("user_password" :> password) @@ ("needs_password" :> (Len(password) = 0)))

_extract_split_individual(s, m, ctx) == Returns("mode" :> "individual")

_extract_split_count(s, m, ctx) ==
    Returns(("mode" :> "count") @@ ("pages_per_file" :> ParseInt(Group(s, m, 1))))

_extract_split_at(s, m, ctx) ==
    Returns(("mode" :> "ranges") @@ ("split_at" :> _parse_page_range(Group(s, m, 1), ctx.num_pages)))

_extract_split_pages(s, m, ctx) ==
    LET pages == _parse_page_range(Group(s, m, 1), ctx.num_pages)
    IN IF Len(pages) = 0 THEN Raises("ValueError")
       ELSE Returns(("mode" :> "ranges") @@ ("ranges" :> <<<<ListMin(pages), ListMax(pages)>>>>))

_extract_position(s, m, ctx) == Returns("position" :> ParseInt(Group(s, m, 1)))

_extract_position_relative(s, m, ctx) ==
    LET page == ParseInt(Group(s, m, 1))
    IN Returns("position" :> (IF Contains(Lower(Group0(s, m)), "after") THEN page + 1 ELSE page))

_extract_position_keyword(s, m, ctx) ==
    LET cmd == Lower(Group0(s, m))
    IN Returns("position" :> (IF Contains(cmd, "end") THEN ctx.num_pages + 1
                              ELSE IF Contains(cmd, "beginning") \/ Contains(cmd, "start") THEN 1
                              ELSE ctx.num_pages + 1))

(* The four extractors with an optional page expression                    *)
OptionalPages(s, m, ctx) ==
    IF m.last >= 1 /\ Truthy(s, m, 1) THEN _parse_page_range(Group(s, m, 1), ctx.num_pages)
    ELSE None

_extract_text_pages(s, m, ctx) ==
    IF LastIndexIsNone(m) THEN Raises("TypeError")
    ELSE Returns("pages" :> OptionalPages(s, m, ctx))

_extract_ocr_pages(s, m, ctx) ==
    IF LastIndexIsNone(m) THEN Raises("TypeError")
    ELSE Returns(("pages" :> OptionalPages(s, m, ctx)) @@ ("mode" :> "extract"))

_extract_ocr_searchable(s, m, ctx) == Returns("mode" :> "searchable")

_extract_ocr_simple(s, m, ctx) == Returns("mode" :> "extract")

_extract_metadata_title(s, m, ctx) == Returns("title" :> Strip(Group(s, m, 1)))

_extract_metadata_author(s, m, ctx) == Returns("author" :> Strip(Group(s, m, 1)))

_extract_metadata_subject(s, m, ctx) == Returns("subject" :> Strip(Group(s, m, 1)))

_extract_new_order(s, m, ctx) == Returns("new_order" :> _parse_page_list(Group(s, m, 1)))

(* list.remove(x): the list without its first x                            *)
ListRemove(seq, x) == LET k == CHOOSE j \in 1..Len(seq) : seq[j] = x /\ \A j2 \in 1..(j - 1) : seq[j2] # x
                      IN SubSeq(seq, 1, k - 1) \o SubSeq(seq, k + 1, Len(seq))

(* list.insert(index, x), index counted from 0 and clamped as Python does  *)
ListInsert(seq, index, x) ==
    LET fromEnd == IF index < 0 THEN index + Len(seq) ELSE index
        at == IF fromEnd < 0 THEN 0 ELSE IF fromEnd > Len(seq) THEN Len(seq) ELSE fromEnd
    IN SubSeq(seq, 1, at) \o <<x>> \o SubSeq(seq, at + 1, Len(seq))

(* _extract_move_page inserting at index to_position, not to_position - 1 *)
_extract_move_page_shifted(s, m, ctx) ==
    LET from_page == ParseInt(Group(s, m, 1))
        to_position == ParseInt(Group(s, m, 2))
        pages == AllPages(ctx.num_pages)
    IN IF from_page \notin Elems(pages) THEN Raises("ValueError")
       ELSE Returns("new_order" :> ListInsert(ListRemove(pages, from_page), to_position, from_page))

_extract_move_page(s, m, ctx) ==
    LET from_page == ParseInt(Group(s, m, 1))
        to_position == ParseInt(Group(s, m, 2))
        pages == AllPages(ctx.num_pages)
    IN IF from_page \notin Elems(pages) THEN Raises("ValueError")
       ELSE Returns("new_order" :> ListInsert(ListRemove(pages, from_page), to_position - 1, from_page))

(* _extract_swap_pages with the two assignments made one after the other  *)
_extract_swap_pages_sequential(s, m, ctx) ==
    LET page1 == ParseInt(Group(s, m, 1))
        page2 == ParseInt(Group(s, m, 2))
        pages == AllPages(ctx.num_pages)
    IN IF page1 \notin Elems(pages) \/ page2 \notin Elems(pages) THEN Raises("ValueError")
       ELSE LET idx1 == CHOOSE k \in 1..Len(pages) : pages[k] = page1
                idx2 == CHOOSE k \in 1..Len(pages) : pages[k] = page2
            IN Returns("new_order" :> [pages EXCEPT ![idx1] = pages[idx2]])

_extract_swap_pages(s, m, ctx) ==
    LET page1 == ParseInt(Group(s, m, 1))
        page2 == ParseInt(Group(s, m, 2))
        pages == AllPages(ctx.num_pages)
    IN IF page1 \notin Elems(pages) \/ page2 \notin Elems(pages) THEN Raises("ValueError")
       ELSE LET idx1 == CHOOSE k \in 1..Len(pages) : pages[k] = page1
                idx2 == CHOOSE k \in 1..Len(pages) : pages[k] = page2
            IN Returns("new_order" :> [pages EXCEPT ![idx1] = pages[idx2], ![idx2] = pages[idx1]])

_extract_image_pages(s, m, ctx) ==
    IF LastIndexIsNone(m) THEN Raises("TypeError")
    ELSE Returns("pages" :> OptionalPages(s, m, ctx))

_extract_table_pages(s, m, ctx) ==
    IF LastIndexIsNone(m) THEN Raises("TypeError")
    ELSE Returns("pages" :> OptionalPages(s, m, ctx))

(* getattr(self, "_" + extractor_name)(match, context)                     *)
Extract(name, s, m, ctx) ==
    CASE name = "extract_pages" -> _extract_pages(s, m, ctx)
      [] name = "extract_relative_pages" -> _extract_relative_pages(s, m, ctx)
      [] name = "extract_rotation" -> _extract_rotation(s, m, ctx)
      [] name = "extract_rotation_direction" -> _extract_rotation_direction(s, m, ctx)
      [] name = "extract_flip" -> _extract_flip(s, m, ctx)
      [] name = "extract_watermark" -> _extract_watermark(s, m, ctx)
      [] name = "extract_watermark_simple" -> _extract_watermark_simple(s, m, ctx)
      [] name = "extract_watermark_quoted" -> _extract_watermark_quoted(s, m, ctx)
      [] name = "extract_password" -> _extract_password(s, m, ctx)
      [] name = "extract_password_optional" -> _extract_password_optional(s, m, ctx)
      [] name = "extract_split_individual" -> _extract_split_individual(s, m, ctx)
      [] name = "extract_split_count" -> _extract_split_count(s, m, ctx)
      [] name = "extract_split_at" -> _extract_split_at(s, m, ctx)
      [] name = "extract_split_pages" -> _extract_split_pages(s, m, ctx)
      [] name = "extract_position" -> _extract_position(s, m, ctx)
      [] name = "extract_position_relative" -> _extract_position_relative(s, m, ctx)
      [] name = "extract_position_keyword" -> _extract_position_keyword(s, m, ctx)
      [] name = "extract_text_pages" -> _extract_text_pages(s, m, ctx)
      [] name = "extract_ocr_pages" -> _extract_ocr_pages(s, m, ctx)
      [] name = "extract_ocr_searchable" -> _extract_ocr_searchable(s, m, ctx)
      [] name = "extract_ocr_simple" -> _extract_ocr_simple(s, m, ctx)
      [] name = "extract_metadata_title" -> _extract_metadata_title(s, m, ctx)
      [] name = "extract_metadata_author" -> _extract_metadata_author(s, m, ctx)
      [] name = "extract_metadata_subject" -> _extract_metadata_subject(s, m, ctx)
      [] name = "extract_new_order" -> _extract_new_order(s, m, ctx)
      [] name = "extract_move_page" -> _extract_move_page(s, m, ctx)
      [] name = "extract_swap_pages" -> _extract_swap_pages(s, m, ctx)
      [] name = "extract_image_pages" -> _extract_image_pages(s, m, ctx)
      [] name = "extract_table_pages" -> _extract_table_pages(s, m, ctx)

----------------------------------------------------------------------------
(* Fuzzy intent detection                                                  *)

INTENT_KEYWORDS == <<
    [intent |-> "remove_pages", keywords |-> <<"remove", "delete", "drop", "rid", "take out">>],
    [intent |-> "rotate_pages", keywords |-> <<"rotate", "turn", "flip", "orientation">>],
    [intent |-> "add_watermark", keywords |-> <<"watermark", "stamp", "mark">>],
    [intent |-> "encrypt", keywords |-> <<"encrypt", "protect", "password", "lock", "secure">>],
    [intent |-> "split", keywords |-> <<"split", "separate", "divide", "extract">>],
    [intent |-> "add_blank_page", keywords |-> <<"blank", "empty", "new page", "insert page">>],
    [intent |-> "extract_text", keywords |-> <<"extract text", "get text", "copy text", "grab text">>],
    [intent |-> "ocr", keywords |-> <<"ocr", "searchable", "recognize", "scan">>],
    [intent |-> "update_metadata", keywords |-> <<"title", "author", "subject", "metadata">>],
    [intent |-> "reorder_pages", keywords |-> <<"reorder", "rearrange", "move page", "swap">>],
    [intent |-> "extract_images", keywords |-> <<"extract image", "get image", "save image">>],
    [intent |-> "extract_tables", keywords |-> <<"extract table", "get table">>] >>

(* Scores and ratios are exact fractions <<numerator, denominator>>        *)
RatGt(x, y) == x[1] * y[2] > y[1] * x[2]

RatEq(x, y) == x[1] * y[2] = y[1] * x[2]

(* difflib.SequenceMatcher(None, a, b): positions from 1, hi exclusive     *)
RunAt(a, b, i, j, ahi, bhi) ==
    LET lim == IF ahi - i < bhi - j THEN ahi - i ELSE bhi - j
        stop == {t \in 0..(lim - 1) : At(a, i + t) # At(b, j + t)}
    IN IF stop = {} THEN lim ELSE CHOOSE t \in stop : \A t2 \in stop : t <= t2

(* The longest of the runs; of those, the earliest in a, then in b         *)
Longest(runs, alo, blo) ==
    LET size == IF runs = {} THEN 0 ELSE (CHOOSE r \in runs : \A r2 \in runs : r[3] >= r2[3])[3]
        best == {r \in runs : r[3] = size}
    IN IF size = 0 THEN <<alo, blo, 0>>
       ELSE CHOOSE r \in best : \A r2 \in best : r[1] < r2[1] \/ (r[1] = r2[1] /\ r[2] <= r2[2])

find_longest_match(a, b, alo, ahi, blo, bhi) ==
    Longest({<<i, j, RunAt(a, b, i, j, ahi, bhi)>> : i \in alo..(ahi - 1), j \in blo..(bhi - 1)},
            alo, blo)

(* The total size of the matching blocks of get_matching_blocks(): the     *)
(* longest block blk = <<i, j, k>>, then the blocks left and right of it   *)
RECURSIVE MatchedSize(_, _, _, _, _, _)
RECURSIVE MatchedAround(_, _, _, _, _, _, _)
MatchedAround(a, b, alo, ahi, blo, bhi, blk) ==
    IF blk[3] = 0 THEN 0
    ELSE blk[3]
         + (IF alo < blk[1] /\ blo < blk[2] THEN MatchedSize(a, b, alo, blk[1], blo, blk[2]) ELSE 0)
         + (IF blk[1] + blk[3] < ahi /\ blk[2] + blk[3] < bhi
            THEN MatchedSize(a, b, blk[1] + blk[3], ahi, blk[2] + blk[3], bhi) ELSE 0)

MatchedSize(a, b, alo, ahi, blo, bhi) ==
    MatchedAround(a, b, alo, ahi, blo, bhi, find_longest_match(a, b, alo, ahi, blo, bhi))

ratio(a, b) == IF Len(a) + Len(b) = 0 THEN <<1, 1>>
               ELSE <<2 * MatchedSize(a, b, 1, Len(a) + 1, 1, Len(b) + 1), Len(a) + Len(b)>>

(* str.split(): the words between runs of whitespace                       *)
RECURSIVE WordsFrom(_, _, _, _)
WordsFrom(s, i, cur, acc) ==
    IF i > Len(s) THEN (IF Len(cur) > 0 THEN Append(acc, cur) ELSE acc)
    ELSE IF At(s, i) \in Whitespace
         THEN WordsFrom(s, i + 1, "", IF Len(cur) > 0 THEN Append(acc, cur) ELSE acc)
         ELSE WordsFrom(s, i + 1, cur \o At(s, i), acc)

SplitWords(s) == WordsFrom(s, 1, "", <<>>)

DirectScore == <<8, 10>>

FuzzyThreshold == <<7, 10>>

(* TLC passes operator arguments unevaluated; Now(x, e) is e with x        *)
(* evaluated first, so that the loops below do not pile up pending updates *)
Now(x, e) == IF x = x THEN e ELSE e

(* One word against one keyword: the raw ratio is compared with the stored *)
(* score, and ratio * 0.7 is what is stored                                *)
WordScore(intent, r, best) ==
    IF RatGt(r, FuzzyThreshold) /\ RatGt(r, best.score)
    THEN [intent |-> intent, score |-> <<r[1] * 7, r[2] * 10>>]
    ELSE best

(* The inner loop over the words of the command, for one keyword           *)
RECURSIVE FuzzyWords(_, _, _, _, _)
FuzzyWords(intent, keyword, words, j, best) ==
    IF j > Len(words) THEN best
    ELSE Now(best, FuzzyWords(intent, keyword, words, j + 1,
                              WordScore(intent, ratio(keyword, words[j]), best)))

(* One keyword: a direct substring scores 0.8, otherwise the words are tried *)
KeywordScore(intent, keyword, command_lower, best) ==
    IF Contains(command_lower, keyword)
    THEN (IF RatGt(DirectScore, best.score) THEN [intent |-> intent, score |-> DirectScore] ELSE best)
    ELSE FuzzyWords(intent, keyword, SplitWords(command_lower), 1, best)

RECURSIVE FuzzyKeywords(_, _, _, _, _)
FuzzyKeywords(intent, keywords, command_lower, k, best) ==
    IF k > Len(keywords) THEN best
    ELSE Now(best, FuzzyKeywords(intent, keywords, command_lower, k + 1,
                                 KeywordScore(intent, keywords[k], command_lower, best)))

RECURSIVE FuzzyIntents(_, _, _)
FuzzyIntents(command_lower, n, best) ==
    IF n > Len(INTENT_KEYWORDS) THEN best
    ELSE Now(best, FuzzyIntents(command_lower, n + 1,
                                FuzzyKeywords(INTENT_KEYWORDS[n].intent, INTENT_KEYWORDS[n].keywords,
                                              command_lower, 1, best)))

_fuzzy_match_intent(cmd) == FuzzyIntents(Lower(cmd), 1, [intent |-> "unknown", score |-> <<0, 1>>])

(* re.search: the match at the first position where the expression matches *)
RECURSIVE SearchFrom(_, _, _)
SearchFrom(re, s, i) ==
    IF i > Len(s) + 1 THEN NoMatch
    ELSE IF M(s, re, i, NoGroups, 0).ok THEN M(s, re, i, NoGroups, 0)
    ELSE SearchFrom(re, s, i + 1)

Search(re, s) == SearchFrom(re, s, 1)

PageListPattern ==
    PagesQ \o <<Sp1, Grp(1, <<Digits1, Rep(<<Sp0, OneOf({"-", ","}), Sp0, Digits1>>, 0, -1, TRUE)>>)>>

QuotedPattern == <<OneOf({"\"", "'"}), Grp(1, <<AnyPlusLazy>>), OneOf({"\"", "'"})>>

(* params["pages"], set when the page expression is found                 *)
GenericPages(cmd, page_match, ctx) ==
    IF page_match.ok THEN "pages" :> _parse_page_range(Group(cmd, page_match, 1), ctx.num_pages)
    ELSE <<>>

(* params["text"] or params["user_password"], set from the quoted string   *)
GenericQuoted(cmd, intent, quoted_match) ==
    IF quoted_match.ok /\ intent = "add_watermark" THEN "text" :> Group(cmd, quoted_match, 1)
    ELSE IF quoted_match.ok /\ intent = "encrypt" THEN "user_password" :> Group(cmd, quoted_match, 1)
    ELSE <<>>

_extract_generic_params(cmd, intent, ctx) ==
    GenericPages(cmd, Search(PageListPattern, cmd), ctx)
    @@ GenericQuoted(cmd, intent, Search(QuotedPattern, cmd))

----------------------------------------------------------------------------
(* Result assembly                                                         *)

(* The values of the Intent enumeration                                    *)
Intent == {"remove_pages", "rotate_pages", "add_watermark", "encrypt", "split", "merge",
           "extract_text", "add_blank_page", "reorder_pages", "ocr", "update_metadata",
           "extract_images", "extract_tables", "unknown"}

(* INTENT_ENDPOINTS without the entry of Intent.OCR                        *)
INTENT_ENDPOINTS_without_ocr ==
    ("remove_pages" :> "/api/remove-pages") @@ ("rotate_pages" :> "/api/rotate")
    @@ ("add_watermark" :> "/api/watermark") @@ ("encrypt" :> "/api/encrypt")
    @@ ("split" :> "/api/split") @@ ("add_blank_page" :> "/api/add-blank-page")
    @@ ("reorder_pages" :> "/api/reorder-pages") @@ ("extract_text" :> "/api/extract-text")
    @@ ("update_metadata" :> "/api/metadata")
    @@ ("extract_images" :> "/api/extract-images") @@ ("extract_tables" :> "/api/extract-tables")

INTENT_ENDPOINTS ==
    ("remove_pages" :> "/api/remove-pages") @@ ("rotate_pages" :> "/api/rotate")
    @@ ("add_watermark" :> "/api/watermark") @@ ("encrypt" :> "/api/encrypt")
    @@ ("split" :> "/api/split") @@ ("add_blank_page" :> "/api/add-blank-page")
    @@ ("reorder_pages" :> "/api/reorder-pages") @@ ("extract_text" :> "/api/extract-text")
    @@ ("ocr" :> "/api/ocr/extract") @@ ("update_metadata" :> "/api/metadata")
    @@ ("extract_images" :> "/api/extract-images") @@ ("extract_tables" :> "/api/extract-tables")

(* DESTRUCTIVE_INTENTS without Intent.ENCRYPT                              *)
DESTRUCTIVE_INTENTS_page_changes ==
    {"remove_pages", "rotate_pages", "add_watermark", "split", "add_blank_page", "reorder_pages"}

DESTRUCTIVE_INTENTS == {"remove_pages", "rotate_pages", "add_watermark", "encrypt", "split",
                        "add_blank_page", "reorder_pages"}

(* dict.get(key, default)                                                  *)
Get(params, key, default) == IF key \in DOMAIN params THEN params[key] ELSE default

(* ", ".join(map(str, list))                                               *)
RECURSIVE JoinInts(_)
JoinInts(seq) == IF Len(seq) = 0 THEN ""
                 ELSE IF Len(seq) = 1 THEN IntToStr(seq[1])
                 ELSE IntToStr(seq[1]) \o ", " \o JoinInts(Tail(seq))

(* _format_page_list testing contiguity against range(first, last)        *)
_format_page_list_short_range(pages) ==
    IF Len(pages) = 0 THEN "none"
    ELSE IF Len(pages) <= 5 THEN JoinInts(pages)
    ELSE IF pages = Range(pages[1], pages[Len(pages)])
         THEN IntToStr(pages[1]) \o "-" \o IntToStr(pages[Len(pages)])
         ELSE IntToStr(pages[1]) \o ", " \o IntToStr(pages[2]) \o ", ... " \o IntToStr(pages[Len(pages)])

_format_page_list(pages) ==
    IF Len(pages) = 0 THEN "none"
    ELSE IF Len(pages) <= 5 THEN JoinInts(pages)
    ELSE IF pages = Range(pages[1], pages[Len(pages)] + 1)
         THEN IntToStr(pages[1]) \o "-" \o IntToStr(pages[Len(pages)])
         ELSE IntToStr(pages[1]) \o ", " \o IntToStr(pages[2]) \o ", ... " \o IntToStr(pages[Len(pages)])

(* The percentages p for which the float product (p / 100) * 100 falls     *)
(* just below p, so that int() gives p - 1 (the cases up to p = 200)       *)
RoundsBelow == {29, 57, 58, 113, 114, 115, 116}

(* int(opacity * 100)                                                      *)
OpacityPercent(opacity) ==
    IF opacity = DefaultOpacity THEN 30
    ELSE IF opacity[1] \in RoundsBelow THEN opacity[1] - 1 ELSE opacity[1]

(* p.get('pages') is true: a list, and not an empty one                    *)
HasPages(params) == "pages" \in DOMAIN params /\ params["pages"] # None /\ Len(params["pages"]) > 0

PagesOrAllText(params) == IF HasPages(params) THEN _format_page_list(params["pages"]) ELSE "all pages"

_describe_split(params, ctx) ==
    LET mode == Get(params, "mode", "individual")
    IN IF mode = "individual" THEN "Split into " \o IntToStr(ctx.num_pages) \o " individual pages"
       ELSE IF mode = "count" THEN "Split every " \o IntToStr(Get(params, "pages_per_file", 1)) \o " pages"
       ELSE IF mode = "ranges" THEN "Split at specified pages"
       ELSE "Split document"

RECURSIVE JoinParts(_)
JoinParts(parts) == IF Len(parts) = 0 THEN ""
                    ELSE IF Len(parts) = 1 THEN parts[1]
                    ELSE parts[1] \o ", " \o JoinParts(Tail(parts))

_describe_metadata(params) ==
    LET field(name) == IF name \in DOMAIN params
                       THEN <<name \o " to \"" \o params[name] \o "\"">> ELSE <<>>
        parts == field("title") \o field("author") \o field("subject")
    IN IF Len(parts) > 0 THEN "Set " \o JoinParts(parts) ELSE "Update metadata"

_generate_action_description(intent, params, ctx) ==
    CASE intent = "remove_pages" ->
           "Remove " \o IntToStr(Len(Get(params, "pages", <<>>))) \o " page(s): "
           \o _format_page_list(Get(params, "pages", <<>>))
      [] intent = "rotate_pages" ->
           "Rotate " \o IntToStr(Len(Get(params, "pages", <<>>))) \o " page(s) by "
           \o IntToStr(Get(params, "rotation", 90)) \o "°"
      [] intent = "add_watermark" ->
           "Add watermark \"" \o Get(params, "text", "") \o "\" with "
           \o IntToStr(OpacityPercent(Get(params, "opacity", DefaultOpacity))) \o "% opacity"
      [] intent = "encrypt" -> "Encrypt document with password"
      [] intent = "split" -> _describe_split(params, ctx)
      [] intent = "add_blank_page" -> "Add blank page at position " \o IntToStr(Get(params, "position", 1))
      [] intent = "extract_text" -> "Extract text from " \o PagesOrAllText(params)
      [] intent = "ocr" -> IF "mode" \in DOMAIN params /\ params["mode"] = "searchable"
                           THEN "Make PDF searchable" ELSE "Extract text using OCR"
      [] intent = "update_metadata" -> _describe_metadata(params)
      [] intent = "reorder_pages" -> "Reorder pages to: " \o JoinInts(Get(params, "new_order", <<>>))
      [] intent = "extract_images" -> "Extract images from " \o PagesOrAllText(params)
      [] intent = "extract_tables" -> "Extract tables from " \o PagesOrAllText(params)
      [] OTHER -> "Unknown action"

CannotRemoveAll == "Cannot remove all pages. At least one page must remain."

MoreThanHalf(count, total) ==
    "This will remove more than half of the document (" \o IntToStr(count) \o " of "
    \o IntToStr(total) \o " pages)."

NoPassword == "No password provided. Please specify a password."

ShortPassword == "Password is very short. Consider using a longer password."

ManyFiles(total) == "This will create " \o IntToStr(total) \o " separate files."

MinPasswordLen == 4

ManyFilesAbove == 50

(* RemoveWarnings with > in place of >= in the all-pages test              *)
RemoveWarnings_strict(params, ctx) ==
    LET pages == Get(params, "pages", <<>>)
    IN IF Len(pages) > ctx.num_pages THEN <<CannotRemoveAll>>
       ELSE IF Len(pages) > ctx.num_pages \div 2 THEN <<MoreThanHalf(Len(pages), ctx.num_pages)>>
       ELSE <<>>

RemoveWarnings(params, ctx) ==
    LET pages == Get(params, "pages", <<>>)
    IN IF Len(pages) >= ctx.num_pages THEN <<CannotRemoveAll>>
       ELSE IF Len(pages) > ctx.num_pages \div 2 THEN <<MoreThanHalf(Len(pages), ctx.num_pages)>>
       ELSE <<>>

(* EncryptWarnings with <= in place of < in the length test               *)
EncryptWarnings_inclusive(params) ==
    IF Len(Get(params, "user_password", "")) = 0 THEN <<NoPassword>>
    ELSE IF Len(Get(params, "user_password", "")) <= MinPasswordLen THEN <<ShortPassword>>
    ELSE <<>>

EncryptWarnings(params) ==
    IF Len(Get(params, "user_password", "")) = 0 THEN <<NoPassword>>
    ELSE IF Len(Get(params, "user_password", "")) < MinPasswordLen THEN <<ShortPassword>>
    ELSE <<>>

(* SplitWarnings with >= in place of > in the page-count test             *)
SplitWarnings_inclusive(params, ctx) ==
    IF "mode" \in DOMAIN params /\ params["mode"] = "individual" /\ ctx.num_pages >= ManyFilesAbove
    THEN <<ManyFiles(ctx.num_pages)>> ELSE <<>>

SplitWarnings(params, ctx) ==
    IF "mode" \in DOMAIN params /\ params["mode"] = "individual" /\ ctx.num_pages > ManyFilesAbove
    THEN <<ManyFiles(ctx.num_pages)>> ELSE <<>>

_generate_warnings(intent, params, ctx) ==
    (IF intent = "remove_pages" THEN RemoveWarnings(params, ctx) ELSE <<>>)
    \o (IF intent = "encrypt" THEN EncryptWarnings(params) ELSE <<>>)
    \o (IF intent = "split" THEN SplitWarnings(params, ctx) ELSE <<>>)

PatternConfidence == <<95, 100>>

(* The unknown result carrying a confidence of 0.5                         *)
ZeroConfidence_half == <<1, 2>>

ZeroConfidence == <<0, 1>>

AcceptAbove == <<5, 10>>

_build_result(intent, params, cmd, ctx, confidence) ==
    [intent |-> intent,
     parameters |-> params,
     confidence |-> confidence,
     original_text |-> cmd,
     api_endpoint |-> IF intent \in DOMAIN INTENT_ENDPOINTS THEN INTENT_ENDPOINTS[intent] ELSE "",
     api_payload |-> params @@ ("file_id" :> ctx.file_id),
     is_destructive |-> intent \in DESTRUCTIVE_INTENTS,
     human_readable_action |-> _generate_action_description(intent, params, ctx),
     warnings |-> _generate_warnings(intent, params, ctx),
     suggestions |-> <<>>]

_generate_suggestions(cmd, intent) ==
    CASE intent = "rotate_pages" ->
           <<"rotate all pages 90 degrees", "rotate page 1 clockwise", "rotate pages 1-5 counterclockwise">>
      [] intent = "remove_pages" -> <<"remove pages 1-5", "delete the last 3 pages", "remove page 1">>
      [] intent = "add_watermark" -> <<"add watermark \"CONFIDENTIAL\"", "watermark DRAFT at 50% opacity">>
      [] OTHER -> <<>>

_get_all_suggestions(cmd) ==
    <<"remove pages 1-5", "rotate page 1 clockwise", "add watermark \"DRAFT\"",
      "encrypt with password secret", "split into individual pages", "extract text",
      "make searchable">>

UnknownCommand(cmd) ==
    [intent |-> "unknown",
     parameters |-> <<>>,
     confidence |-> ZeroConfidence,
     original_text |-> cmd,
     api_endpoint |-> "",
     api_payload |-> <<>>,
     is_destructive |-> FALSE,
     human_readable_action |-> "Unknown command",
     warnings |-> <<>>,
     suggestions |-> _get_all_suggestions(cmd)]

----------------------------------------------------------------------------
(* parse                                                                   *)

(* The patterns that match the command; the loop returns at the first      *)
(* The intent groups of the table in declaration order                     *)
IntentGroups ==
    LET Keep(k) == k = 1 \/ COMMAND_PATTERNS[k].intent # COMMAND_PATTERNS[k - 1].intent
    IN [j \in 1..Cardinality({k \in 1..Len(COMMAND_PATTERNS) : Keep(k)}) |->
            COMMAND_PATTERNS[CHOOSE k \in 1..Len(COMMAND_PATTERNS) :
                /\ Keep(k)
                /\ Cardinality({i \in 1..k : Keep(i)}) = j].intent]

Matching(cmd) == {k \in 1..Len(COMMAND_PATTERNS) : Match(COMMAND_PATTERNS[k].re, cmd).ok}

Least_last(S) == CHOOSE k \in S : \A k2 \in S : k >= k2

Least(S) == CHOOSE k \in S : \A k2 \in S : k <= k2

FirstMatching(cmd) == Least(Matching(cmd))

Returned(value) == [exc |-> "", value |-> value]

Raised(exc) == [exc |-> exc, value |-> <<>>]

(* The fuzzy fallback accepting a score of exactly 0.5                     *)
FuzzyParse_inclusive(cmd, ctx, fuzzy) ==
    IF fuzzy.intent # "unknown" /\ ~RatGt(AcceptAbove, fuzzy.score)
    THEN Returned([_build_result(fuzzy.intent, _extract_generic_params(cmd, fuzzy.intent, ctx),
                                 cmd, ctx, fuzzy.score)
                   EXCEPT !.suggestions = _generate_suggestions(cmd, fuzzy.intent)])
    ELSE Returned(UnknownCommand(cmd))

(* The fuzzy fallback, fuzzy being the result of _fuzzy_match_intent       *)
FuzzyParse(cmd, ctx, fuzzy) ==
    IF fuzzy.intent # "unknown" /\ RatGt(fuzzy.score, AcceptAbove)
    THEN Returned([_build_result(fuzzy.intent, _extract_generic_params(cmd, fuzzy.intent, ctx),
                                 cmd, ctx, fuzzy.score)
                   EXCEPT !.suggestions = _generate_suggestions(cmd, fuzzy.intent)])
    ELSE Returned(UnknownCommand(cmd))

(* The body of the pattern loop for the first matching pattern, extracted  *)
(* being what its extractor returned or raised                             *)
PatternParse(cmd, ctx, intent, extracted) ==
    IF extracted.exc # "" THEN Raised(extracted.exc)
    ELSE Returned(_build_result(intent, extracted.params, cmd, ctx, PatternConfidence))

Matched(cmd, ctx, pat) ==
    PatternParse(cmd, ctx, pat.intent, Extract(pat.extractor, cmd, Match(pat.re, cmd), ctx))

parse(cmd_in, ctx) ==
    IF Matching(Strip(cmd_in)) # {}
    THEN Matched(Strip(cmd_in), ctx, COMMAND_PATTERNS[FirstMatching(Strip(cmd_in))])
    ELSE FuzzyParse(Strip(cmd_in), ctx, _fuzzy_match_intent(Strip(cmd_in)))

get_capabilities == <<
    [command |-> "remove pages 1-5", description |-> "Remove specified pages from the document",
     intent |-> "remove_pages", category |-> "Page Operations"],
    [command |-> "delete the last 3 pages", description |-> "Remove the last N pages",
     intent |-> "remove_pages", category |-> "Page Operations"],
    [command |-> "rotate page 1 clockwise", description |-> "Rotate pages by 90°",
     intent |-> "rotate_pages", category |-> "Page Operations"],
    [command |-> "rotate all pages 180 degrees", description |-> "Rotate all pages",
     intent |-> "rotate_pages", category |-> "Page Operations"],
    [command |-> "add blank page after 5", description |-> "Insert a blank page",
     intent |-> "add_blank_page", category |-> "Page Operations"],
    [command |-> "reorder pages as 3, 1, 2", description |-> "Change page order",
     intent |-> "reorder_pages", category |-> "Page Operations"],
    [command |-> "add watermark \"DRAFT\"", description |-> "Add text watermark",
     intent |-> "add_watermark", category |-> "Document Operations"],
    [command |-> "encrypt with password secret", description |-> "Password protect the PDF",
     intent |-> "encrypt", category |-> "Document Operations"],
    [command |-> "split into individual pages", description |-> "Split into separate files",
     intent |-> "split", category |-> "Document Operations"],
    [command |-> "split every 5 pages", description |-> "Split by page count",
     intent |-> "split", category |-> "Document Operations"],
    [command |-> "extract text", description |-> "Extract text content",
     intent |-> "extract_text", category |-> "Content Extraction"],
    [command |-> "extract tables", description |-> "Extract table data",
     intent |-> "extract_tables", category |-> "Content Extraction"],
    [command |-> "extract images", description |-> "Extract embedded images",
     intent |-> "extract_images", category |-> "Content Extraction"],
    [command |-> "make searchable", description |-> "OCR scanned documents",
     intent |-> "ocr", category |-> "Content Extraction"],
    [command |-> "set title to \"Report\"", description |-> "Update document title",
     intent |-> "update_metadata", category |-> "Metadata"],
    [command |-> "set author to \"John\"", description |-> "Update document author",
     intent |-> "update_metadata", category |-> "Metadata"] >>

----------------------------------------------------------------------------
(* The calls made to the parser                                            *)

MaxPages == 5

MaxListPages == 7

LargeDocs == {10, 50, 51, 60}

Degrees == {90, 180, 270}

Passwords == {"a", "abc", "abcd", "abcdefgh", "password", "with", "S3cret"}

Call(cmd, n) == [command |-> cmd, num_pages |-> n]

RemoveCommand(a, b) == "remove pages " \o IntToStr(a) \o "-" \o IntToStr(b)

RotateCommand(d) == "rotate pages 1-3 by " \o IntToStr(d) \o " degrees"

EncryptCommand(w) == "encrypt with password " \o w

MoveCommand(a, b) == "move page " \o IntToStr(a) \o " to position " \o IntToStr(b)

SwapCommand(a, b) == "swap pages " \o IntToStr(a) \o " and " \o IntToStr(b)

SplitIndividual == "split into individual pages"

SecureCommand(verb, article, noun) == verb \o " " \o article \o noun

SecureVerbs == {"secure", "lock"}

SecureArticles == {"the ", ""}

SecureNouns == {"document", "pdf", "file"}

SecurePasswords == {"abc", "hunter2"}

SecureCommands ==
    {SecureCommand(verb, article, noun) : verb \in SecureVerbs, article \in SecureArticles, noun \in SecureNouns}
    \cup {SecureCommand(verb, article, noun) \o " with " \o w :
            verb \in SecureVerbs, article \in SecureArticles, noun \in SecureNouns, w \in SecurePasswords}

PassthroughBases == {"extract text", "extract images", "extract tables", "ocr this document"}

PassthroughExpressions == {"2-3", "1, 2", "9", "abc"}

PassthroughCommand(base, pages) ==
    IF base = "ocr this document" THEN base \o " pages " \o pages ELSE base \o " from pages " \o pages

PassthroughCommands ==
    PassthroughBases \cup {PassthroughCommand(base, x) : base \in PassthroughBases, x \in PassthroughExpressions}

ExtractVerbs == {"extract", "separate"}

ExtractExpressions == {"2", "3-5", "2, 4", "1-3"}

ExtractSuffixes == {"", " as a separate file", " into a new pdf"}

ExtractPagesCommand(verb, pages, suffix) == verb \o " pages " \o pages \o suffix

ExtractPagesCommands ==
    {ExtractPagesCommand(verb, x, suffix) : verb \in ExtractVerbs, x \in ExtractExpressions,
                                            suffix \in ExtractSuffixes}

RelativeCommand(verb, which, count) == verb \o " the " \o which \o " " \o IntToStr(count) \o " pages"

RelativeCommands ==
    {RelativeCommand(verb, which, count) : verb \in {"remove", "delete"}, which \in {"first", "last"},
                                            count \in 1..MaxPages}

DirectionWords == {"clockwise", "counterclockwise", "left", "right", "upside down"}

DirectionCommands ==
    {verb \o " page 1" : verb \in {"rotate", "flip", "turn"}}
    \cup {verb \o " page 1 " \o word : verb \in {"rotate", "flip", "turn"}, word \in DirectionWords}

OtherCommands ==
    {"asdfqwerty12345", "", "hello world", "what is this", "enXrypZ it", "use a password",
     "protec file", "encrypt \" \"", "remve page 1", "delte pages 2, 3", "secure the document",
     "lock the pdf with hunter2", "  Remove Pages 1-2  ", "remove pages 1-5, abc, 8",
     "extract pages 3-7", "remove the first 2 pages", "watermark DRAFT at 50% opacity",
     "remove pages 3, 1, 3, 9", "delte pages 4, 2, 2, 9", "remove the last 9 pages",
     "delete the first 9 pages", "rotate pages 7, 2", "extract text from pages 4, 4, 0, 6",
     "extract images from page 2", "extract tables from pages 1-2", "extract pages 9",
     "please delete rotat", "kindly remove splt", "pls rotat", "please delete",
     "rotate page 1 by 45 degrees", "rotate page 1 by 360", "rotate 180", "rotate pages 1-2 by 0"}

CatalogCommands == {get_capabilities[k].command : k \in 1..Len(get_capabilities)}

Calls ==
    {Call(RemoveCommand(a, b), n) : a \in 1..MaxPages, b \in 1..MaxPages, n \in 1..MaxPages}
    \cup {Call(RemoveCommand(1, n), n) : n \in LargeDocs}
    \cup {Call(RotateCommand(d), n) : d \in Degrees, n \in 1..MaxPages}
    \cup {Call(c, n) : c \in RelativeCommands, n \in 1..MaxPages}
    \cup {Call(c, n) : c \in SecureCommands, n \in {1, 3}}
    \cup {Call(c, n) : c \in PassthroughCommands, n \in 1..MaxPages}
    \cup {Call(c, n) : c \in ExtractPagesCommands, n \in 1..MaxPages}
    \cup {Call(c, n) : c \in DirectionCommands, n \in 1..MaxPages}
    \cup {Call(EncryptCommand(w), n) : w \in Passwords, n \in 1..MaxPages}
    \cup {Call(MoveCommand(a, b), n) : a \in 1..MaxPages, b \in 1..MaxPages, n \in 1..MaxPages}
    \cup {Call(SwapCommand(a, b), n) : a \in 1..MaxPages, b \in 1..MaxPages, n \in 1..MaxPages}
    \cup {Call(SplitIndividual, n) : n \in (1..MaxPages) \cup LargeDocs}
    \cup {Call(c, n) : c \in OtherCommands \cup CatalogCommands, n \in 1..MaxPages}

DocumentContext(n) == [file_id |-> "doc-1", num_pages |-> n, has_text |-> TRUE, has_images |-> TRUE]

(* The sorted, duplicate-free page lists within [1, n]                     *)
PageLists(n) == {SortedSeq(S) : S \in SUBSET (1..n)}

(* The file service and the http layer before the server has started       *)
NoRegistry == [_initialized |-> FALSE, _file_registry |-> [id \in {} |-> <<>>]]

NoDisk == [dirs |-> {}, registry_file |-> [id \in {} |-> <<>>]]

NoRequest == [op |-> "", file_id |-> "", intent |-> "", confirmed |-> FALSE, status |-> 0, started |-> ""]

(* The singleton parser: its compiled pattern table, and the keyword table *)
(* of the module. The entries are immutable objects, so a table is the     *)
(* sequence of the entries it holds, each named by its place in the        *)
(* declaration                                                             *)
command_parser == [_compiled_patterns |-> [k \in 1..Len(COMMAND_PATTERNS) |-> k],
                   INTENT_KEYWORDS |-> [k \in 1..Len(INTENT_KEYWORDS) |-> k]]

NoCalls == [c \in {} |-> <<>>]

(* AIService() as constructed: _rate_limits = defaultdict(list), and the   *)
(* clock the service reads with time.time()                                *)
NoLimiter == [now |-> 0, _rate_limits |-> [c \in {} |-> <<>>], accepted |-> [c \in {} |-> <<>>],
              last |-> [client_id |-> "", allowed |-> FALSE], checks |-> 0]

(* The cleanup task before lifespan starts it. expires_at holds the key of *)
(* that name for the registry entries that have it; error is what the task *)
(* printed for its latest sweep                                            *)
NoLifecycle == [now |-> 0, expires_at |-> [id \in {} |-> 0], pc |-> "sleep", cleaned |-> 0, error |-> ""]

FmtIdle == [pc |-> "idle", num_pages |-> 0, pages |-> <<>>, first |-> "", parsed |-> <<>>, second |-> ""]

----------------------------------------------------------------------------
(* One call of parse(command, context): it returns a ParsedCommand or      *)
(* raises the exception of the extractor.                                  *)

Init ==
    /\ \E call \in Calls : command = call.command /\ context = DocumentContext(call.num_pages)
    /\ pc = "call"
    /\ result = <<>>
    /\ error = ""
    /\ fmt = FmtIdle
    /\ registry = NoRegistry /\ disk = NoDisk /\ http = NoRequest
    /\ shared = command_parser /\ calls = NoCalls /\ limiter = NoLimiter /\ lifecycle = NoLifecycle

Parse ==
    /\ pc = "call"
    /\ LET out == parse(command, context)
       IN /\ pc' = IF out.exc = "" THEN "return" ELSE "raise"
          /\ result' = out.value
          /\ error' = out.exc
    /\ UNCHANGED <<command, context, fmt, registry, disk, http, shared, calls, limiter, lifecycle>>

Next == Parse

Spec == Init /\ [][Next]_vars

----------------------------------------------------------------------------
(* A page list shown by _format_page_list, read back by _parse_page_range  *)
(* and shown again                                                         *)

InitFormat ==
    /\ \E n \in 1..MaxListPages : \E list \in PageLists(n) :
          fmt = [FmtIdle EXCEPT !.pc = "render", !.num_pages = n, !.pages = list]
    /\ command = "" /\ context = DocumentContext(1) /\ pc = "idle" /\ result = <<>> /\ error = ""
    /\ registry = NoRegistry /\ disk = NoDisk /\ http = NoRequest
    /\ shared = command_parser /\ calls = NoCalls /\ limiter = NoLimiter /\ lifecycle = NoLifecycle

Render ==
    /\ fmt.pc = "render"
    /\ fmt' = [fmt EXCEPT !.pc = "reparse", !.first = _format_page_list(fmt.pages)]
    /\ UNCHANGED <<command, context, pc, result, error, registry, disk, http, shared, calls, limiter, lifecycle>>

Reparse ==
    /\ fmt.pc = "reparse"
    /\ fmt' = [fmt EXCEPT !.pc = "rerender", !.parsed = _parse_page_range(fmt.first, fmt.num_pages)]
    /\ UNCHANGED <<command, context, pc, result, error, registry, disk, http, shared, calls, limiter, lifecycle>>

Rerender ==
    /\ fmt.pc = "rerender"
    /\ fmt' = [fmt EXCEPT !.pc = "done", !.second = _format_page_list(fmt.parsed)]
    /\ UNCHANGED <<command, context, pc, result, error, registry, disk, http, shared, calls, limiter, lifecycle>>

NextFormat == Render \/ Reparse \/ Rerender

SpecFormat == InitFormat /\ [][NextFormat]_vars

----------------------------------------------------------------------------
(* The file registry of FileService, the directories it manages, and the   *)
(* endpoints that read and change them                                     *)

FileIds == {"f1", "f2"}

Roots == {"uploads", "processed", "temp"}

FileInfo(id, root) == [id |-> id, file_type |-> "pdf", path |-> [root |-> root, id |-> id]]

PathExists(dsk, path) == <<path.root, path.id>> \in dsk.dirs

Mkdir(dsk, root, id) == [dsk EXCEPT !.dirs = @ \cup {<<root, id>>}]

(* cls._file_registry[file_id] = file_info  and  del cls._file_registry[file_id] *)
SetItem(files, id, info) == [k \in DOMAIN files \cup {id} |-> IF k = id THEN info ELSE files[k]]

DelItem(files, id) == [k \in DOMAIN files \ {id} |-> files[k]]

(* json.dump of the registry into the registry file                        *)
_save_registry(dsk, files) == [dsk EXCEPT !.registry_file = files]

(* The load at import: entries whose file is missing are dropped            *)
_load_registry(reg, dsk) ==
    IF reg._initialized THEN [registry |-> reg, disk |-> dsk]
    ELSE [registry |-> [_initialized |-> TRUE,
                        _file_registry |-> [k \in {id \in DOMAIN dsk.registry_file :
                                                     PathExists(dsk, dsk.registry_file[id].path)}
                                            |-> dsk.registry_file[k]]],
          disk |-> IF \E id \in DOMAIN dsk.registry_file : ~PathExists(dsk, dsk.registry_file[id].path)
                   THEN _save_registry(dsk, [k \in {id \in DOMAIN dsk.registry_file :
                                                      PathExists(dsk, dsk.registry_file[id].path)}
                                             |-> dsk.registry_file[k]])
                   ELSE dsk]

(* registry.get(file_id): the entry, or nothing                             *)
get_file_info(reg, id) == IF id \in DOMAIN reg._file_registry THEN {reg._file_registry[id]} ELSE {}

update_file_path(reg, id, path) ==
    IF id \in DOMAIN reg._file_registry
    THEN [reg EXCEPT !._file_registry[id].path = path]
    ELSE reg

(* delete_file: the directories whose removal fails stay; the registry     *)
(* entry is removed in every case                                          *)
RemovedDirs(dsk, id, failing) == {<<root, id>> : root \in Roots \ failing} \cap dsk.dirs

delete_file_success(dsk, id, failing) == \A root \in failing : <<root, id>> \notin dsk.dirs

delete_file_keeping_failed(reg, dsk, id, failing) ==
    IF delete_file_success(dsk, id, failing)
    THEN [reg EXCEPT !._file_registry = DelItem(@, id)]
    ELSE reg

delete_file(reg, dsk, id, failing) == [reg EXCEPT !._file_registry = DelItem(@, id)]

Response(op, id, status) == [NoRequest EXCEPT !.op = op, !.file_id = id, !.status = status]

PersistedRegistries ==
    UNION {{[id \in S |-> FileInfo(id, root[id])] : root \in [S -> {"uploads", "processed"}]} :
           S \in SUBSET FileIds}

(* execute_command: the intents it refuses without confirmed = true        *)
ConfirmedIntents == {"remove_pages", "encrypt", "split"}

ParamGet(params, key, default) == IF key \in DOMAIN params THEN params[key] ELSE default

(* The service function _execute_intent calls for an intent, and whether   *)
(* the arguments of the call fit the function's signature                  *)
ServiceCall(intent, params) ==
    CASE intent = "remove_pages"    -> [name |-> "pdf_service.remove_pages", binds |-> TRUE]
      [] intent = "rotate_pages"    -> [name |-> "pdf_service.rotate_pages", binds |-> TRUE]
      [] intent = "add_watermark"   -> [name |-> "pdf_service.add_watermark", binds |-> FALSE]
      [] intent = "encrypt"         -> [name |-> "pdf_service.encrypt_pdf", binds |-> FALSE]
      [] intent = "split"           -> [name |-> "pdf_service.split_pdf", binds |-> FALSE]
      [] intent = "add_blank_page"  -> [name |-> "pdf_service.add_blank_page", binds |-> TRUE]
      [] intent = "reorder_pages"   -> [name |-> "pdf_service.reorder_pages", binds |-> TRUE]
      [] intent = "extract_text"    -> [name |-> "pdf_service.extract_text", binds |-> TRUE]
      [] intent = "ocr"             -> IF ParamGet(params, "mode", "extract") = "searchable"
                                       THEN [name |-> "ocr_service.create_searchable_pdf", binds |-> TRUE]
                                       ELSE [name |-> "ocr_service.extract_text_from_pdf", binds |-> TRUE]
      [] intent = "update_metadata" -> [name |-> "pdf_service.update_metadata", binds |-> TRUE]
      [] intent = "extract_images"  -> [name |-> "pdf_service.extract_images", binds |-> FALSE]
      [] intent = "extract_tables"  -> [name |-> "pdf_service.extract_tables", binds |-> TRUE]
      [] OTHER                      -> [name |-> "", binds |-> FALSE]

(* _execute_intent: the exception it ends with ("" for none) and the       *)
(* service function whose body was entered ("" for none)                   *)
_execute_intent(intent, params, file_info, completes) ==
    IF file_info = {} THEN [exc |-> "TypeError", started |-> ""]
    ELSE IF ServiceCall(intent, params).name = "" THEN [exc |-> "ValueError", started |-> ""]
    ELSE IF ~ServiceCall(intent, params).binds THEN [exc |-> "TypeError", started |-> ""]
    ELSE [exc |-> IF completes THEN "" ELSE "Exception", started |-> ServiceCall(intent, params).name]

Executed(request, outcome) ==
    [request EXCEPT !.status = IF outcome.exc = "" THEN 200 ELSE 500, !.started = outcome.started]

execute_command(reg, request, params, completes) ==
    IF request.intent \notin Intent THEN [request EXCEPT !.status = 400]
    ELSE IF request.intent \in ConfirmedIntents /\ ~request.confirmed THEN [request EXCEPT !.status = 400]
    ELSE Executed(request, _execute_intent(request.intent, params, get_file_info(reg, request.file_id), completes))

Parameters == {[p \in {} |-> ""], [mode |-> "searchable"]}

ExecuteRequests ==
    {[op |-> "execute", file_id |-> id, intent |-> intent, confirmed |-> confirmed, status |-> 0, started |-> ""] :
        id \in FileIds, intent \in Intent \cup {"shred"}, confirmed \in BOOLEAN}

Parked == command = "" /\ context = DocumentContext(1) /\ pc = "idle" /\ result = <<>> /\ error = "" /\ fmt = FmtIdle

InitServer ==
    /\ \E dirs \in SUBSET (Roots \X FileIds), saved \in PersistedRegistries :
          /\ registry = _load_registry(NoRegistry, [dirs |-> dirs, registry_file |-> saved]).registry
          /\ disk = _load_registry(NoRegistry, [dirs |-> dirs, registry_file |-> saved]).disk
    /\ http = NoRequest
    /\ Parked
    /\ shared = command_parser /\ calls = NoCalls /\ limiter = NoLimiter /\ lifecycle = NoLifecycle

(* POST /upload: save_upload under a fresh id; a file that cannot be read  *)
(* as a PDF fails the request after it was saved and registered            *)
upload_pdf ==
    \E id \in FileIds, readable \in BOOLEAN :
        /\ id \notin DOMAIN registry._file_registry
        /\ \A root \in Roots : <<root, id>> \notin disk.dirs
        /\ registry' = [registry EXCEPT !._file_registry = SetItem(@, id, FileInfo(id, "uploads"))]
        /\ disk' = _save_registry(Mkdir(disk, "uploads", id), registry'._file_registry)
        /\ http' = Response("upload", id, IF readable THEN 200 ELSE 500)
        /\ UNCHANGED <<command, context, pc, result, error, fmt, shared, calls, limiter, lifecycle>>

(* POST /merge: the output is written under a fresh id and registered      *)
merge_pdfs ==
    \E id \in FileIds, merged \in BOOLEAN :
        /\ id \notin DOMAIN registry._file_registry
        /\ \A root \in Roots : <<root, id>> \notin disk.dirs
        /\ IF merged
           THEN /\ registry' = [registry EXCEPT !._file_registry = SetItem(@, id, FileInfo(id, "processed"))]
                /\ disk' = _save_registry(Mkdir(disk, "processed", id), registry'._file_registry)
                /\ http' = Response("merge", id, 200)
           ELSE /\ registry' = registry
                /\ disk' = Mkdir(disk, "processed", id)
                /\ http' = Response("merge", id, 500)
        /\ UNCHANGED <<command, context, pc, result, error, fmt, shared, calls, limiter, lifecycle>>

(* POST /remove-pages: the processed file replaces the path of the entry   *)
remove_pages ==
    \E id \in FileIds, completes \in BOOLEAN :
        /\ IF get_file_info(registry, id) = {}
           THEN /\ UNCHANGED <<registry, disk>>
                /\ http' = Response("remove-pages", id, 404)
           ELSE IF completes
           THEN /\ registry' = update_file_path(registry, id, [root |-> "processed", id |-> id])
                /\ disk' = _save_registry(Mkdir(disk, "processed", id), registry'._file_registry)
                /\ http' = Response("remove-pages", id, 200)
           ELSE /\ registry' = registry
                /\ disk' = Mkdir(disk, "processed", id)
                /\ http' = Response("remove-pages", id, 500)
        /\ UNCHANGED <<command, context, pc, result, error, fmt, shared, calls, limiter, lifecycle>>

(* DELETE /file/{file_id}                                                   *)
delete_file_endpoint ==
    \E id \in FileIds, failing \in SUBSET Roots :
        /\ registry' = delete_file(registry, disk, id, failing)
        /\ disk' = IF registry' # registry
                   THEN _save_registry([disk EXCEPT !.dirs = @ \ RemovedDirs(disk, id, failing)],
                                       registry'._file_registry)
                   ELSE [disk EXCEPT !.dirs = @ \ RemovedDirs(disk, id, failing)]
        /\ http' = Response("delete", id, IF delete_file_success(disk, id, failing) THEN 200 ELSE 500)
        /\ UNCHANGED <<command, context, pc, result, error, fmt, shared, calls, limiter, lifecycle>>

(* GET /download/{file_id}                                                  *)
download_file ==
    \E id \in FileIds :
        /\ http' = Response("download", id,
                            IF get_file_info(registry, id) = {} THEN 404
                            ELSE IF ~PathExists(disk, registry._file_registry[id].path) THEN 404
                            ELSE 200)
        /\ UNCHANGED <<registry, disk, command, context, pc, result, error, fmt, shared, calls, limiter, lifecycle>>

(* POST /smart-command/execute                                              *)
execute ==
    \E request \in ExecuteRequests, params \in Parameters, completes \in BOOLEAN :
        /\ http' = execute_command(registry, request, params, completes)
        /\ UNCHANGED <<registry, disk, command, context, pc, result, error, fmt, shared, calls, limiter, lifecycle>>

NextServer == upload_pdf \/ merge_pdfs \/ remove_pages \/ delete_file_endpoint \/ download_file \/ execute

SpecServer == InitServer /\ [][NextServer]_vars

----------------------------------------------------------------------------
(* Interleaved calls of parse on the singleton parser: each caller has its *)
(* own command, context, loop position and result; the tables are shared   *)

Callers == {"a", "b"}

ConcurrentCommands ==
    {"  remove pages 1-2 ", "rotate page 1", "extract text", "remve page 1", "hello there",
     "encrypt with password abcd", "extract tables from pages 1-2"}

NewCall(cmd, n) == [command |-> cmd, context |-> DocumentContext(n), pc |-> "call", k |-> 0, out |-> Raised("")]

(* One iteration of the loop over the compiled patterns: what it leaves in *)
(* the table and in the caller's frame                                     *)
Compiled(table, k) == COMMAND_PATTERNS[table[k]]

TryPattern_caching(table, call) ==
    IF Match(Compiled(table, call.k).re, call.command).ok
    THEN [table |-> <<table[call.k]>> \o SubSeq(table, 1, call.k - 1) \o SubSeq(table, call.k + 1, Len(table)),
          call  |-> [call EXCEPT !.pc = "done",
                                 !.out = PatternParse(call.command, call.context, Compiled(table, call.k).intent,
                                             Extract(Compiled(table, call.k).extractor, call.command,
                                                     Match(Compiled(table, call.k).re, call.command), call.context))]]
    ELSE [table |-> table, call |-> [call EXCEPT !.k = @ + 1]]

TryPattern(table, call) ==
    IF Match(Compiled(table, call.k).re, call.command).ok
    THEN [table |-> table,
          call  |-> [call EXCEPT !.pc = "done",
                                 !.out = PatternParse(call.command, call.context, Compiled(table, call.k).intent,
                                             Extract(Compiled(table, call.k).extractor, call.command,
                                                     Match(Compiled(table, call.k).re, call.command), call.context))]]
    ELSE [table |-> table, call |-> [call EXCEPT !.k = @ + 1]]

InitConcurrent ==
    /\ shared = command_parser /\ limiter = NoLimiter /\ lifecycle = NoLifecycle
    /\ calls \in [Callers -> {NewCall(cmd, n) : cmd \in ConcurrentCommands, n \in {2}}]
    /\ registry = NoRegistry /\ disk = NoDisk /\ http = NoRequest
    /\ Parked

(* command = command.strip(), and the loop starts                          *)
Enter(c) ==
    /\ calls[c].pc = "call"
    /\ calls' = [calls EXCEPT ![c].command = Strip(@), ![c].pc = "match", ![c].k = 1]
    /\ UNCHANGED <<shared, command, context, pc, result, error, fmt, registry, disk, http, limiter, lifecycle>>

Iterate(c) ==
    /\ calls[c].pc = "match"
    /\ calls[c].k <= Len(shared._compiled_patterns)
    /\ shared' = [shared EXCEPT !._compiled_patterns = TryPattern(@, calls[c]).table]
    /\ calls' = [calls EXCEPT ![c] = TryPattern(shared._compiled_patterns, calls[c]).call]
    /\ UNCHANGED <<command, context, pc, result, error, fmt, registry, disk, http, limiter, lifecycle>>

(* No pattern matched: fuzzy keyword matching                              *)
Fallback(c) ==
    /\ calls[c].pc = "match"
    /\ calls[c].k > Len(shared._compiled_patterns)
    /\ calls' = [calls EXCEPT ![c].pc = "done",
                              ![c].out = FuzzyParse(calls[c].command, calls[c].context,
                                                    _fuzzy_match_intent(calls[c].command))]
    /\ UNCHANGED <<shared, command, context, pc, result, error, fmt, registry, disk, http, limiter, lifecycle>>

NextConcurrent == \E c \in Callers : Enter(c) \/ Iterate(c) \/ Fallback(c)

SpecConcurrent == InitConcurrent /\ [][NextConcurrent]_vars

----------------------------------------------------------------------------
(* The page-range parser on fragments built from tokens: each token is     *)
(* given with the pages it denotes (none for a malformed token)            *)

MaxTokens == 3

RangeTokens ==
    {[text |-> "1", pages |-> {1}], [text |-> "3", pages |-> {3}], [text |-> "8", pages |-> {8}],
     [text |-> "0", pages |-> {0}], [text |-> "2-4", pages |-> {2, 3, 4}],
     [text |-> "4-6", pages |-> {4, 5, 6}], [text |-> "5-3", pages |-> {}],
     [text |-> "abc", pages |-> {}], [text |-> "1-2-3", pages |-> {}], [text |-> "x-2", pages |-> {}]}

RangeSeparators == {", ", " ", ","}

RangeDocs == {3, 8}

RECURSIVE JoinTokens(_, _)
JoinTokens(tokens, sep) ==
    IF Len(tokens) = 0 THEN ""
    ELSE IF Len(tokens) = 1 THEN tokens[1].text
    ELSE tokens[1].text \o sep \o JoinTokens(Tail(tokens), sep)

DenotedPages(tokens) == UNION {tokens[k].pages : k \in 1..Len(tokens)}

WholeDocument == {"", "all", "ALL", " All "}

InitRange ==
    /\ \/ \E len \in 1..MaxTokens : \E tokens \in [1..len -> RangeTokens] :
          \E sep \in RangeSeparators, n \in RangeDocs :
             fmt = [FmtIdle EXCEPT !.pc = "reparse", !.num_pages = n,
                                   !.first = JoinTokens(tokens, sep),
                                   !.pages = SortedSeq(DenotedPages(tokens))]
       \/ \E whole \in WholeDocument, n \in RangeDocs :
             fmt = [FmtIdle EXCEPT !.pc = "reparse", !.num_pages = n, !.first = whole,
                                   !.pages = [k \in 1..n |-> k]]
    /\ command = "" /\ context = DocumentContext(1) /\ pc = "idle" /\ result = <<>> /\ error = ""
    /\ registry = NoRegistry /\ disk = NoDisk /\ http = NoRequest
    /\ shared = command_parser /\ calls = NoCalls /\ limiter = NoLimiter /\ lifecycle = NoLifecycle

NextRange == Reparse \/ Rerender

SpecRange == InitRange /\ [][NextRange]_vars

----------------------------------------------------------------------------
(* The rate limiter of the AI service. The router calls check_rate_limit   *)
(* inside its async endpoints, so one call runs to its end before the next *)
(* begins. limiter.accepted keeps, per client, every time at which a call  *)
(* returned True; limiter.last is the return of the latest call. The clock *)
(* is read in seconds and never goes back.                                 *)

rate_limit_requests == 20

rate_limit_window == 60

MaxClock == 60

MaxChecks == 22

Clients == {"10.0.0.1", "10.0.0.2"}

(* self._rate_limits[client_id] of a defaultdict(list)                     *)
Stamps(limits, client_id) == IF client_id \in DOMAIN limits THEN limits[client_id] ELSE <<>>

(* [t for t in self._rate_limits[client_id] if t > window_start]           *)
Recent(stamps, window_start) == SelectSeq(stamps, LAMBDA t : t > window_start)

(* check_rate_limit refusing at more than rate_limit_requests              *)
check_rate_limit_off_by_one(limits, client_id, current_time) ==
    LET kept == Recent(Stamps(limits, client_id), current_time - rate_limit_window)
    IN IF Len(kept) > rate_limit_requests
       THEN [allowed |-> FALSE, limits |-> SetItem(limits, client_id, kept)]
       ELSE [allowed |-> TRUE, limits |-> SetItem(limits, client_id, Append(kept, current_time))]

(* AIService.check_rate_limit: the return value and _rate_limits after it  *)
check_rate_limit(limits, client_id, current_time) ==
    LET kept == Recent(Stamps(limits, client_id), current_time - rate_limit_window)
    IN IF Len(kept) >= rate_limit_requests
       THEN [allowed |-> FALSE, limits |-> SetItem(limits, client_id, kept)]
       ELSE [allowed |-> TRUE, limits |-> SetItem(limits, client_id, Append(kept, current_time))]

InitLimiter ==
    /\ limiter = NoLimiter
    /\ Parked
    /\ registry = NoRegistry /\ disk = NoDisk /\ http = NoRequest
    /\ shared = command_parser /\ calls = NoCalls /\ lifecycle = NoLifecycle

(* the router's check_rate_limit(request) for the client get_client_id     *)
(* names: HTTP 429 when the service returns False                          *)
RateLimited(client_id) ==
    /\ limiter.checks < MaxChecks
    /\ LET out == check_rate_limit(limiter._rate_limits, client_id, limiter.now)
       IN limiter' = [limiter EXCEPT
              !._rate_limits = out.limits,
              !.accepted = IF out.allowed
                           THEN SetItem(@, client_id, Append(Stamps(@, client_id), limiter.now))
                           ELSE @,
              !.last = [client_id |-> client_id, allowed |-> out.allowed],
              !.checks = @ + 1]
    /\ UNCHANGED <<command, context, pc, result, error, fmt, registry, disk, http, shared, calls, lifecycle>>

(* time.time() moves on by half a window                                   *)
Elapse ==
    /\ limiter.now + rate_limit_window \div 2 <= MaxClock
    /\ limiter' = [limiter EXCEPT !.now = @ + rate_limit_window \div 2]
    /\ UNCHANGED <<command, context, pc, result, error, fmt, registry, disk, http, shared, calls, lifecycle>>

NextLimiter == (\E client_id \in Clients : RateLimited(client_id)) \/ Elapse

SpecLimiter == InitLimiter /\ [][NextLimiter]_vars

----------------------------------------------------------------------------
(* The expiry sweep. lifespan starts periodic_cleanup as a task of the     *)
(* event loop: it sleeps an hour, runs cleanup_expired_files, and goes     *)
(* round again, whatever the sweep raised. Time is counted in hours.       *)

FILE_EXPIRY_HOURS == 1

MaxHours == 3

(* the id and the directory batch_service gives the output made of file id *)
BatchOutputId(id) == "batch_wm_" \o id

BatchOutputInfo(id) ==
    [id |-> BatchOutputId(id), file_type |-> "pdf", path |-> [root |-> "processed", id |-> "batch_" \o id]]

(* the for loop over expired_ids: delete_file for each, counting successes *)
RECURSIVE DeleteExpired(_, _, _, _, _)
DeleteExpired(reg, dsk, expired_ids, failing, cleaned_count) ==
    IF expired_ids = {} THEN [registry |-> reg, disk |-> dsk, cleaned |-> cleaned_count]
    ELSE LET id == CHOOSE x \in expired_ids : TRUE
             after == delete_file(reg, dsk, id, failing)
             dirs == [dsk EXCEPT !.dirs = @ \ RemovedDirs(dsk, id, failing)]
         IN DeleteExpired(after,
                          IF after # reg THEN _save_registry(dirs, after._file_registry) ELSE dirs,
                          expired_ids \ {id}, failing,
                          IF delete_file_success(dsk, id, failing) THEN cleaned_count + 1
                          ELSE cleaned_count)

(* cleanup_expired_files: info["expires_at"] is read for every entry of    *)
(* the registry before anything is deleted                                 *)
cleanup_expired_files(reg, dsk, expires_at, current_time, failing) ==
    IF \E id \in DOMAIN reg._file_registry : id \notin DOMAIN expires_at
    THEN [exc |-> "KeyError: 'expires_at'", registry |-> reg, disk |-> dsk, cleaned |-> 0]
    ELSE LET swept == DeleteExpired(reg, dsk,
                                    {id \in DOMAIN reg._file_registry : current_time > expires_at[id]},
                                    failing, 0)
         IN [exc |-> "", registry |-> swept.registry, disk |-> swept.disk, cleaned |-> swept.cleaned]

(* the expires_at keys of the entries that are left                        *)
Kept(expires_at, reg) == [id \in DOMAIN expires_at \cap DOMAIN reg._file_registry |-> expires_at[id]]

InitCleanup ==
    /\ registry = _load_registry(NoRegistry, NoDisk).registry
    /\ disk = _load_registry(NoRegistry, NoDisk).disk
    /\ lifecycle = NoLifecycle
    /\ http = NoRequest
    /\ Parked
    /\ shared = command_parser /\ calls = NoCalls /\ limiter = NoLimiter

(* save_upload: the entry carries expires_at = utcnow() + FILE_EXPIRY_HOURS *)
save_upload ==
    \E id \in FileIds :
        /\ id \notin DOMAIN registry._file_registry
        /\ \A root \in Roots : <<root, id>> \notin disk.dirs
        /\ registry' = [registry EXCEPT !._file_registry = SetItem(@, id, FileInfo(id, "uploads"))]
        /\ disk' = _save_registry(Mkdir(disk, "uploads", id), registry'._file_registry)
        /\ lifecycle' = [lifecycle EXCEPT !.expires_at = SetItem(@, id, lifecycle.now + FILE_EXPIRY_HOURS)]
        /\ UNCHANGED <<command, context, pc, result, error, fmt, http, shared, calls, limiter>>

(* register_file, as the merge and split endpoints call it: the entry has  *)
(* id, original_name, file_type and path                                   *)
register_file ==
    \E id \in FileIds :
        /\ id \notin DOMAIN registry._file_registry
        /\ \A root \in Roots : <<root, id>> \notin disk.dirs
        /\ registry' = [registry EXCEPT !._file_registry = SetItem(@, id, FileInfo(id, "processed"))]
        /\ disk' = _save_registry(Mkdir(disk, "processed", id), registry'._file_registry)
        /\ UNCHANGED <<command, context, pc, result, error, fmt, http, shared, calls, limiter, lifecycle>>

(* BatchService.process_watermark for a registered file: the output is put *)
(* into _file_registry directly, with the same four keys                   *)
process_watermark ==
    \E id \in FileIds :
        /\ get_file_info(registry, id) # {}
        /\ registry' = [registry EXCEPT !._file_registry = SetItem(@, BatchOutputId(id), BatchOutputInfo(id))]
        /\ disk' = Mkdir(disk, "processed", "batch_" \o id)
        /\ UNCHANGED <<command, context, pc, result, error, fmt, http, shared, calls, limiter, lifecycle>>

(* DELETE /file/{file_id} by a user                                         *)
delete_registered ==
    \E id \in FileIds \cup {BatchOutputId(f) : f \in FileIds}, failing \in SUBSET Roots :
        /\ registry' = delete_file(registry, disk, id, failing)
        /\ disk' = IF registry' # registry
                   THEN _save_registry([disk EXCEPT !.dirs = @ \ RemovedDirs(disk, id, failing)],
                                       registry'._file_registry)
                   ELSE [disk EXCEPT !.dirs = @ \ RemovedDirs(disk, id, failing)]
        /\ lifecycle' = [lifecycle EXCEPT !.expires_at = Kept(@, registry')]
        /\ UNCHANGED <<command, context, pc, result, error, fmt, http, shared, calls, limiter>>

hour_passes ==
    /\ lifecycle.now < MaxHours
    /\ lifecycle' = [lifecycle EXCEPT !.now = @ + 1]
    /\ UNCHANGED <<command, context, pc, result, error, fmt, registry, disk, http, shared, calls, limiter>>

(* periodic_cleanup: await asyncio.sleep(3600) returns                     *)
sleep_ends ==
    /\ lifecycle.pc = "sleep"
    /\ lifecycle' = [lifecycle EXCEPT !.pc = "sweep"]
    /\ UNCHANGED <<command, context, pc, result, error, fmt, registry, disk, http, shared, calls, limiter>>

(* periodic_cleanup: the sweep; an exception is printed and the loop goes  *)
(* back to sleep                                                           *)
periodic_cleanup ==
    /\ lifecycle.pc = "sweep"
    /\ \E failing \in SUBSET Roots :
          LET out == cleanup_expired_files(registry, disk, lifecycle.expires_at, lifecycle.now, failing)
          IN /\ registry' = out.registry
             /\ disk' = out.disk
             /\ lifecycle' = [lifecycle EXCEPT !.pc = "sleep", !.cleaned = out.cleaned, !.error = out.exc,
                                               !.expires_at = Kept(@, out.registry)]
    /\ UNCHANGED <<command, context, pc, result, error, fmt, http, shared, calls, limiter>>

NextCleanup ==
    save_upload \/ register_file \/ process_watermark \/ delete_registered \/ hour_passes
       \/ sleep_ends \/ periodic_cleanup

(* the task is scheduled by the event loop for as long as the app runs     *)
SpecCleanup == InitCleanup /\ [][NextCleanup]_vars /\ WF_vars(sleep_ends) /\ WF_vars(periodic_cleanup)

----------------------------------------------------------------------------
(* Properties                                                              *)

Called == pc # "call"

Warnings == Elems(result.warnings)

Ascending(a, b) == [k \in 1..(b - a + 1) |-> a + k - 1]

(* C1: for 1 <= a <= b <= num_pages, parse("remove pages a-b") returns     *)
(* intent remove_pages, pages equal to [a, ..., b] and confidence 0.95.    *)
Thm_C1 ==
    \A a \in 1..MaxPages, b \in 1..MaxPages :
        (Called /\ command = RemoveCommand(a, b) /\ a <= b /\ b <= context.num_pages)
        => /\ pc = "return"
           /\ result.intent = "remove_pages"
           /\ result.parameters = ("pages" :> Ascending(a, b))
           /\ RatEq(result.confidence, <<95, 100>>)

Wit_C1 ==
    /\ pc = "return" /\ command = RemoveCommand(2, 4) /\ context.num_pages = 5
    /\ result.parameters = ("pages" :> <<2, 3, 4>>)

(* C2: for d in {90, 180, 270} and num_pages >= 3,                         *)
(* parse("rotate pages 1-3 by d degrees") returns intent rotate_pages with *)
(* rotation = d and pages = [1, 2, 3].                                     *)
Claim_C2 ==
    \A d \in Degrees :
        (Called /\ command = RotateCommand(d) /\ context.num_pages >= 3)
        => /\ pc = "return"
           /\ result.intent = "rotate_pages"
           /\ result.parameters["rotation"] = d
           /\ result.parameters["pages"] = <<1, 2, 3>>

(* C3: "rotate page 1 counterclockwise" gives rotation 270, "rotate page 1 *)
(* clockwise" gives 90 and "flip page 1", whatever direction word follows  *)
(* it, gives 180, each with intent rotate_pages and pages = [1].           *)
RotatesPageOne(rotation) ==
    /\ pc = "return"
    /\ result.intent = "rotate_pages"
    /\ result.parameters["pages"] = <<1>>
    /\ result.parameters["rotation"] = rotation

Claim_C3 ==
    /\ (Called /\ command = "rotate page 1 counterclockwise") => RotatesPageOne(270)
    /\ (Called /\ command = "rotate page 1 clockwise") => RotatesPageOne(90)
    /\ (Called /\ command = "flip page 1") => RotatesPageOne(180)
    /\ \A word \in DirectionWords :
          (Called /\ command = "flip page 1 " \o word) => RotatesPageOne(180)

(* C4: a remove_pages result with page list P on n pages warns that not    *)
(* all pages can be removed if |P| >= n (so "remove pages 1-n" always      *)
(* does), else carries exactly one advisory stating |P| and n if           *)
(* |P| > n/2, else has no warnings; the two never appear together.         *)
IsAdvisory(w) == SubSeq(w, 1, 32) = "This will remove more than half "

Thm_C4 ==
    (pc = "return" /\ result.intent = "remove_pages")
    => LET size == IF "pages" \in DOMAIN result.parameters THEN Len(result.parameters["pages"]) ELSE 0
           n == context.num_pages
           all == "Cannot remove all pages. At least one page must remain."
           advisory == "This will remove more than half of the document (" \o IntToStr(size)
                       \o " of " \o IntToStr(n) \o " pages)."
       IN /\ size >= n => (all \in Warnings /\ \A w \in Warnings : ~IsAdvisory(w))
          /\ (size < n /\ 2 * size > n) => result.warnings = <<advisory>>
          /\ (size < n /\ 2 * size <= n) => result.warnings = <<>>
          /\ command = RemoveCommand(1, n) => all \in Warnings

Wit_C4 ==
    /\ pc = "return" /\ result.intent = "remove_pages" /\ context.num_pages = 5
    /\ Len(result.parameters["pages"]) = 5
    /\ result.warnings = <<"Cannot remove all pages. At least one page must remain.">>

(* C5: parse("encrypt with password W") has intent encrypt and             *)
(* user_password = W, with the 'Password is very short' warning if         *)
(* len(W) < 4 and no length warning if len(W) >= 4; an encrypt result with *)
(* an empty or absent user_password has 'No password provided' instead.    *)
Thm_C5 ==
    LET short == "Password is very short. Consider using a longer password."
        none == "No password provided. Please specify a password."
    IN /\ \A w \in Passwords :
             (Called /\ command = EncryptCommand(w))
             => /\ pc = "return"
                /\ result.intent = "encrypt"
                /\ result.parameters["user_password"] = w
                /\ short \in Warnings <=> Len(w) < 4
       /\ (pc = "return" /\ result.intent = "encrypt"
           /\ ("user_password" \notin DOMAIN result.parameters \/ result.parameters["user_password"] = ""))
          => (none \in Warnings /\ short \notin Warnings)

Wit_C5 ==
    /\ pc = "return" /\ command = EncryptCommand("abc")
    /\ result.warnings = <<"Password is very short. Consider using a longer password.">>

(* C6: when no pattern matches and the fuzzy score is not above 0.5, parse *)
(* returns (does not raise) intent unknown, confidence 0.0, empty          *)
(* parameters, empty api_endpoint, is_destructive false and a non-empty    *)
(* suggestions list.                                                       *)
Thm_C6 ==
    (Called /\ Matching(Strip(command)) = {}
            /\ ~RatGt(_fuzzy_match_intent(Strip(command)).score, <<1, 2>>))
    => /\ pc = "return"
       /\ result.intent = "unknown"
       /\ RatEq(result.confidence, <<0, 1>>)
       /\ DOMAIN result.parameters = {}
       /\ result.api_endpoint = ""
       /\ result.is_destructive = FALSE
       /\ Len(result.suggestions) > 0

Wit_C6 ==
    /\ pc = "return" /\ command = "asdfqwerty12345"
    /\ result.intent = "unknown" /\ Len(result.suggestions) = 7

(* C7: parse("split into individual pages") has intent split and mode      *)
(* 'individual', and warns that num_pages separate files will be created   *)
(* if and only if num_pages > 50.                                          *)
Thm_C7 ==
    (Called /\ command = SplitIndividual)
    => /\ pc = "return"
       /\ result.intent = "split"
       /\ result.parameters["mode"] = "individual"
       /\ ("This will create " \o IntToStr(context.num_pages) \o " separate files.") \in Warnings
          <=> context.num_pages > 50

Wit_C7 ==
    /\ pc = "return" /\ command = SplitIndividual /\ context.num_pages = 60
    /\ result.warnings = <<"This will create 60 separate files.">>

(* C8: for 1 <= A, B <= n, parse("move page A to position B") has intent   *)
(* reorder_pages and new_order a permutation of 1..n with page A at        *)
(* position B and the other pages in ascending order.                      *)
Thm_C8 ==
    \A a \in 1..MaxPages, b \in 1..MaxPages :
        (Called /\ command = MoveCommand(a, b) /\ a <= context.num_pages /\ b <= context.num_pages)
        => /\ pc = "return"
           /\ result.intent = "reorder_pages"
           /\ LET order == result.parameters["new_order"]
                  n == context.num_pages
              IN /\ Len(order) = n
                 /\ {order[k] : k \in 1..n} = 1..n
                 /\ order[b] = a
                 /\ \A i \in (1..n) \ {b}, j \in (1..n) \ {b} : i < j => order[i] < order[j]

Wit_C8 ==
    /\ pc = "return" /\ command = MoveCommand(5, 1) /\ context.num_pages = 5
    /\ result.parameters["new_order"] = <<5, 1, 2, 3, 4>>

(* C9: for 1 <= A, B <= n, parse("swap pages A and B") has intent          *)
(* reorder_pages and new_order the identity ordering with the entries A    *)
(* and B exchanged; swapping A with A gives the identity.                  *)
Thm_C9 ==
    \A a \in 1..MaxPages, b \in 1..MaxPages :
        (Called /\ command = SwapCommand(a, b) /\ a <= context.num_pages /\ b <= context.num_pages)
        => /\ pc = "return"
           /\ result.intent = "reorder_pages"
           /\ result.parameters["new_order"] =
                 [k \in 1..context.num_pages |-> IF k = a THEN b ELSE IF k = b THEN a ELSE k]

Wit_C9 ==
    /\ pc = "return" /\ command = SwapCommand(2, 4) /\ context.num_pages = 5
    /\ result.parameters["new_order"] = <<1, 4, 3, 2, 5>>

(* C10 as stated: for every sorted, duplicate-free page list within        *)
(* [1, num_pages], showing it, parsing what is shown and showing the       *)
(* parsed list gives the string shown first.                               *)
Claim_C10 == fmt.pc = "done" => fmt.second = fmt.first

(* C10 as amended: the same, for the lists of at most 5 pages and the      *)
(* lists of consecutive pages.                                             *)
Consecutive(list) == \A k \in 1..(Len(list) - 1) : list[k + 1] = list[k] + 1

Thm_C10 ==
    (fmt.pc = "done" /\ (Len(fmt.pages) <= 5 \/ Consecutive(fmt.pages)))
    => fmt.second = fmt.first

Wit_C10 ==
    /\ fmt.pc = "done" /\ fmt.pages = <<1, 2, 3, 4, 5, 6>>
    /\ fmt.first = "1-6" /\ fmt.parsed = fmt.pages /\ fmt.second = "1-6"

(* C11: in every result of parse, on the pattern path or the fuzzy path, a *)
(* pages parameter that is a list is strictly ascending and holds only     *)
(* pages p with 1 <= p <= num_pages.                                       *)
Thm_C11 ==
    (pc = "return" /\ "pages" \in DOMAIN result.parameters /\ result.parameters["pages"] # None)
    => LET pages == result.parameters["pages"]
       IN /\ \A k \in 1..(Len(pages) - 1) : pages[k] < pages[k + 1]
          /\ \A k \in 1..Len(pages) : 1 <= pages[k] /\ pages[k] <= context.num_pages

Wit_C11 ==
    /\ pc = "return" /\ command = "delte pages 4, 2, 2, 9" /\ context.num_pages = 5
    /\ RatGt(<<95, 100>>, result.confidence)
    /\ result.parameters["pages"] = <<2, 4>>

(* C12: every result of parse has one intent, which is unknown if and     *)
(* only if the confidence is 0.0: a pattern match gives a non-unknown      *)
(* intent with confidence 0.95, a fuzzy result keeps its non-unknown       *)
(* intent only when its score is above 0.5, and a fuzzy best score of at   *)
(* most 0.5 is reported as unknown with confidence 0.0.                    *)
Thm_C12 ==
    pc = "return"
    => /\ result.intent \in Intent
       /\ result.intent = "unknown" <=> RatEq(result.confidence, <<0, 1>>)
       /\ Matching(Strip(command)) # {}
          => (result.intent # "unknown" /\ RatEq(result.confidence, <<95, 100>>))
       /\ Matching(Strip(command)) = {}
          => LET fuzzy == _fuzzy_match_intent(Strip(command))
             IN IF RatGt(fuzzy.score, <<1, 2>>)
                THEN /\ fuzzy.intent # "unknown"
                     /\ result.intent = fuzzy.intent
                     /\ RatEq(result.confidence, fuzzy.score)
                ELSE /\ result.intent = "unknown"
                     /\ RatEq(result.confidence, <<0, 1>>)

Wit_C12 ==
    /\ pc = "return" /\ command = "remve page 1" /\ Matching(command) = {}
    /\ result.intent = "remove_pages"
    /\ RatGt(result.confidence, <<1, 2>>) /\ RatGt(<<95, 100>>, result.confidence)

(* C13: in every result of parse, is_destructive is true if and only if   *)
(* the intent is one of remove_pages, rotate_pages, add_watermark,         *)
(* encrypt, split, add_blank_page, reorder_pages; it is a function of the  *)
(* intent alone, whatever the parameters, confidence or context.           *)
Thm_C13 ==
    pc = "return"
    => (result.is_destructive
        <=> result.intent \in {"remove_pages", "rotate_pages", "add_watermark", "encrypt",
                               "split", "add_blank_page", "reorder_pages"})

Wit_C13 ==
    /\ pc = "return" /\ result.intent = "encrypt" /\ result.is_destructive
    /\ RatGt(<<95, 100>>, result.confidence)

(* C14: for every command and every context with num_pages >= 1, parse    *)
(* returns a ParsedCommand; no input makes it raise an error.              *)
Claim_C14 == context.num_pages >= 1 => pc # "raise"

(* C15: every example command of the get_capabilities() catalog, parsed   *)
(* with any context of num_pages >= 1, is recognised by a pattern: parse   *)
(* returns without error a result with confidence 0.95 whose intent is the *)
(* intent the catalog entry declares.                                      *)
Claim_C15 ==
    \A k \in 1..Len(get_capabilities) :
        (Called /\ command = get_capabilities[k].command /\ context.num_pages >= 1)
        => /\ pc = "return"
           /\ RatEq(result.confidence, <<95, 100>>)
           /\ result.intent = get_capabilities[k].intent

(* C16: the execute endpoint starts no document operation of a destructive  *)
(* intent (remove_pages, rotate_pages, add_watermark, encrypt, split,      *)
(* add_blank_page, reorder_pages) unless the request has confirmed = true: *)
(* an unconfirmed request for one of them is rejected and nothing is       *)
(* started                                                                 *)
Claim_C16 ==
    (http.op = "execute" /\ ~http.confirmed
        /\ http.intent \in {"remove_pages", "rotate_pages", "add_watermark", "encrypt", "split",
                            "add_blank_page", "reorder_pages"})
    => (http.started = "" /\ http.status # 200)

(* C18: a deletion of id leaves no registry entry for id, whether or not   *)
(* the directories could be removed, and leaves the entries of all other   *)
(* ids as they were; an id without an entry gets one only by an operation  *)
(* that registers it (upload, merge output); a download of an id without   *)
(* an entry answers 404                                                    *)
Thm_C18 ==
    [][/\ http'.op = "delete"
            => /\ get_file_info(registry', http'.file_id) = {}
               /\ \A other \in FileIds \ {http'.file_id} :
                      get_file_info(registry', other) = get_file_info(registry, other)
       /\ \A id \in FileIds :
            (get_file_info(registry, id) = {} /\ get_file_info(registry', id) # {})
                => (http'.op \in {"upload", "merge"} /\ http'.file_id = id)
       /\ (http'.op = "download" /\ get_file_info(registry, http'.file_id) = {})
            => http'.status = 404]_vars

Wit_C18 ==
    /\ http.op = "delete" /\ http.status = 500
    /\ <<"uploads", http.file_id>> \in disk.dirs
    /\ get_file_info(registry, http.file_id) = {}
    /\ \E other \in FileIds : get_file_info(registry, other) # {}

(* C17: interleaved calls of parse leave the compiled pattern table and    *)
(* the keyword table as they were, and a call that finishes has the        *)
(* result of the same call run alone on its own command and context        *)
Thm_C17 ==
    [][/\ shared' = shared
       /\ \A c \in Callers :
            (calls[c].pc # "done" /\ calls'[c].pc = "done")
                => calls'[c].out = parse(calls[c].command, calls[c].context)]_vars

Wit_C17 ==
    /\ calls # NoCalls
    /\ calls["a"].pc = "match" /\ calls["a"].k > 1
    /\ calls["b"].pc = "done" /\ calls["b"].out.exc = "" /\ calls["b"].out.value.intent = "rotate_pages"
    /\ calls["a"].command = "extract tables from pages 1-2"

(* C19: the groups are tried in the order remove_pages, rotate_pages,      *)
(* add_watermark, encrypt, split, add_blank_page, extract_text, ocr,       *)
(* update_metadata, reorder_pages, extract_images, extract_tables, each    *)
(* group's patterns in listed order; the outcome of parse is that of the   *)
(* first matching pattern's extractor alone (its result, or its exception),*)
(* and the fuzzy result is returned only when no pattern matches           *)
Outcome == IF pc = "return" THEN Returned(result) ELSE Raised(error)

BuiltFromPattern(k, cmd) ==
    Outcome = PatternParse(cmd, context, COMMAND_PATTERNS[k].intent,
                           Extract(COMMAND_PATTERNS[k].extractor, cmd, Match(COMMAND_PATTERNS[k].re, cmd), context))

Thm_C19 ==
    /\ IntentGroups = <<"remove_pages", "rotate_pages", "add_watermark", "encrypt", "split", "add_blank_page",
                        "extract_text", "ocr", "update_metadata", "reorder_pages", "extract_images",
                        "extract_tables">>
    /\ Called =>
        IF \E k \in 1..Len(COMMAND_PATTERNS) : Match(COMMAND_PATTERNS[k].re, Strip(command)).ok
        THEN \E k \in 1..Len(COMMAND_PATTERNS) :
                /\ Match(COMMAND_PATTERNS[k].re, Strip(command)).ok
                /\ \A j \in 1..(k - 1) : ~Match(COMMAND_PATTERNS[j].re, Strip(command)).ok
                /\ BuiltFromPattern(k, Strip(command))
        ELSE Outcome = FuzzyParse(Strip(command), context, _fuzzy_match_intent(Strip(command)))

Wit_C19 ==
    /\ pc = "return" /\ RatEq(result.confidence, PatternConfidence)
    /\ \E j \in Matching(command), k \in Matching(command) :
          /\ j < k
          /\ COMMAND_PATTERNS[j].intent = result.intent
          /\ COMMAND_PATTERNS[k].intent # result.intent

(* C20: the pattern that wins matches the entire command, from its first   *)
(* character to its last: no text of the command is left over after the    *)
(* matched part                                                            *)
Claim_C20 ==
    Called =>
        \A k \in 1..Len(COMMAND_PATTERNS) :
            (/\ Match(COMMAND_PATTERNS[k].re, Strip(command)).ok
             /\ \A j \in 1..(k - 1) : ~Match(COMMAND_PATTERNS[j].re, Strip(command)).ok)
            => Group0(Strip(command), Match(COMMAND_PATTERNS[k].re, Strip(command))) = Strip(command)

(* C21: on a document of n pages and for 1 <= N <= n, "remove/delete the   *)
(* last N pages" gives remove_pages with pages n-N+1 .. n, and "remove/    *)
(* delete the first N pages" gives pages 1 .. N                            *)
Claim_C21 ==
    \A verb \in {"remove", "delete"}, count \in 1..MaxPages :
        /\ (Called /\ command = RelativeCommand(verb, "last", count) /\ count <= context.num_pages)
            => /\ pc = "return" /\ result.intent = "remove_pages"
               /\ result.parameters["pages"] = [k \in 1..count |-> context.num_pages - count + k]
        /\ (Called /\ command = RelativeCommand(verb, "first", count) /\ count <= context.num_pages)
            => /\ pc = "return" /\ result.intent = "remove_pages"
               /\ result.parameters["pages"] = [k \in 1..count |-> k]

(* C22: "secure/lock [the] document/pdf/file" without a password gives     *)
(* intent encrypt with user_password "" and needs_password true, and the   *)
(* 'No password provided' warning; followed by "with X" it gives           *)
(* user_password X and needs_password false                                *)
Claim_C22 ==
    \A verb \in SecureVerbs, article \in SecureArticles, noun \in SecureNouns :
        /\ (Called /\ command = SecureCommand(verb, article, noun))
            => /\ pc = "return" /\ result.intent = "encrypt"
               /\ DOMAIN result.parameters = {"user_password", "needs_password"}
               /\ result.parameters["user_password"] = ""
               /\ result.parameters["needs_password"] = TRUE
               /\ NoPassword \in Warnings
        /\ \A w \in SecurePasswords :
            (Called /\ command = SecureCommand(verb, article, noun) \o " with " \o w)
            => /\ pc = "return" /\ result.intent = "encrypt"
               /\ DOMAIN result.parameters = {"user_password", "needs_password"}
               /\ result.parameters["user_password"] = w
               /\ result.parameters["needs_password"] = FALSE

(* C23: for extract text, extract images, extract tables and OCR, a        *)
(* command without a page expression gives pages None (the whole           *)
(* document); with a page expression pages is the list parsed from it, and *)
(* an empty list stays an empty list and is not described as 'all pages'   *)
Claim_C23 ==
    \A base \in PassthroughBases :
        /\ (Called /\ command = base)
            => /\ pc = "return"
               /\ "pages" \in DOMAIN result.parameters
               /\ result.parameters["pages"] = None
        /\ \A x \in PassthroughExpressions :
            (Called /\ command = PassthroughCommand(base, x))
            => /\ pc = "return"
               /\ "pages" \in DOMAIN result.parameters
               /\ result.parameters["pages"] = _parse_page_range(x, context.num_pages)
               /\ result.parameters["pages"] = <<>>
                    => ~Contains(result.human_readable_action, "all pages")

(* C24: the score returned by the fuzzy classifier is not lower than the   *)
(* score of any candidate: 0.8 for a keyword that is a substring of the    *)
(* lower-cased command, ratio * 0.7 for a (keyword, token) pair whose      *)
(* ratio exceeds 0.7; a substring hit guarantees a returned score of 0.8   *)
NoCandidateAbove(returned, command_lower) ==
    \A n \in 1..Len(INTENT_KEYWORDS) : \A k \in 1..Len(INTENT_KEYWORDS[n].keywords) :
        IF Contains(command_lower, INTENT_KEYWORDS[n].keywords[k])
        THEN ~RatGt(<<8, 10>>, returned.score)
        ELSE \A j \in 1..Len(SplitWords(command_lower)) :
                RatGt(ratio(INTENT_KEYWORDS[n].keywords[k], SplitWords(command_lower)[j]), <<7, 10>>)
                => ~RatGt(<<7 * ratio(INTENT_KEYWORDS[n].keywords[k], SplitWords(command_lower)[j])[1],
                            10 * ratio(INTENT_KEYWORDS[n].keywords[k], SplitWords(command_lower)[j])[2]>>,
                          returned.score)

Claim_C24 ==
    (Called /\ Matching(Strip(command)) = {})
    => NoCandidateAbove(_fuzzy_match_intent(Strip(command)), Lower(Strip(command)))

(* C25: the page-range parser returns exactly the ascending, duplicate-    *)
(* free list of the integers within [1, n] that the well-formed tokens of  *)
(* the fragment denote; malformed tokens are dropped and do not affect the *)
(* other tokens; "all" in any letter case, or the empty fragment, gives    *)
(* 1 .. n                                                                  *)
Thm_C25 ==
    fmt.pc \in {"rerender", "done"}
    => fmt.parsed = SortedSeq({p \in Elems(fmt.pages) : 1 <= p /\ p <= fmt.num_pages})

Wit_C25 ==
    /\ fmt.pc = "done" /\ fmt.first = "2-4, abc, 8" /\ fmt.num_pages = 8
    /\ fmt.parsed = <<2, 3, 4, 8>>

(* C26: "extract pages X" or "separate pages X", also when followed by     *)
(* "as a separate file" or "into a new pdf", gives intent split with mode  *)
(* 'ranges' and the single range [min(P), max(P)], P being the pages the   *)
(* whole expression X denotes within [1, num_pages]                        *)
Claim_C26 ==
    \A verb \in ExtractVerbs, x \in ExtractExpressions, suffix \in ExtractSuffixes :
        (/\ Called /\ command = ExtractPagesCommand(verb, x, suffix)
         /\ _parse_page_range(x, context.num_pages) # <<>>)
        => /\ pc = "return" /\ result.intent = "split"
           /\ DOMAIN result.parameters = {"mode", "ranges"}
           /\ result.parameters["mode"] = "ranges"
           /\ result.parameters["ranges"] = <<<<ListMin(_parse_page_range(x, context.num_pages)),
                                                ListMax(_parse_page_range(x, context.num_pages))>>>>

(* C27: a result with intent rotate_pages that has a rotation parameter    *)
(* has rotation 90, 180 or 270                                             *)
Claim_C27 ==
    (pc = "return" /\ result.intent = "rotate_pages" /\ "rotation" \in DOMAIN result.parameters)
    => result.parameters["rotation"] \in {90, 180, 270}

(* C28: in every result api_endpoint is "" exactly when intent is unknown; *)
(* the intent is never merge nor any other intent without an endpoint; and *)
(* for a result that is not unknown api_payload is the parameters with     *)
(* file_id = context.file_id added                                         *)
Thm_C28 ==
    pc = "return"
    => /\ result.api_endpoint = "" <=> result.intent = "unknown"
       /\ result.intent # "merge"
       /\ result.intent \in {"remove_pages", "rotate_pages", "add_watermark", "encrypt", "split",
                             "add_blank_page", "reorder_pages", "extract_text", "ocr", "update_metadata",
                             "extract_images", "extract_tables", "unknown"}
       /\ result.intent # "unknown"
            => /\ DOMAIN result.api_payload = DOMAIN result.parameters \cup {"file_id"}
               /\ result.api_payload["file_id"] = context.file_id
               /\ \A key \in DOMAIN result.parameters : result.api_payload[key] = result.parameters[key]

Wit_C28 ==
    /\ pc = "return" /\ command = "ocr this document pages 2-3" /\ context.num_pages = 3
    /\ result.intent = "ocr" /\ result.api_endpoint = "/api/ocr/extract"
    /\ result.api_payload = [pages |-> <<2, 3>>, mode |-> "extract", file_id |-> "doc-1"]

(* the calls of one client that returned True in the rate_limit_window     *)
(* seconds that begin at time from                                         *)
AcceptedWithin(client_id, from) ==
    {k \in DOMAIN Stamps(limiter.accepted, client_id) :
        /\ from <= limiter.accepted[client_id][k]
        /\ limiter.accepted[client_id][k] < from + rate_limit_window}

(* no window of rate_limit_window seconds holds more than                  *)
(* rate_limit_requests calls of one client that returned True; the fullest *)
(* windows begin at a call that returned True                              *)
WindowBound ==
    \A client_id \in DOMAIN limiter.accepted :
        \A from \in Elems(limiter.accepted[client_id]) :
            Cardinality(AcceptedWithin(client_id, from)) <= rate_limit_requests

(* the call of this step, when the step is a call                          *)
Checked == limiter'.checks = limiter.checks + 1

(* C30: for each client at most rate_limit_requests (20) of the calls that *)
(* fall within any window of rate_limit_window (60) seconds have returned  *)
(* True; a call that returns False records no timestamp; and a call leaves *)
(* the timestamps of every other client as they were, its own return being *)
(* decided by the client's own accepted calls of the last 60 seconds.      *)
Thm_C30 ==
    [][ /\ WindowBound'
        /\ (Checked /\ ~limiter'.last.allowed) =>
              /\ limiter'.accepted = limiter.accepted
              /\ Len(Stamps(limiter'._rate_limits, limiter'.last.client_id))
                    <= Len(Stamps(limiter._rate_limits, limiter'.last.client_id))
              /\ Elems(Stamps(limiter'._rate_limits, limiter'.last.client_id))
                    \subseteq Elems(Stamps(limiter._rate_limits, limiter'.last.client_id))
        /\ Checked =>
              /\ \A other \in Clients \ {limiter'.last.client_id} :
                    /\ Stamps(limiter'._rate_limits, other) = Stamps(limiter._rate_limits, other)
                    /\ Stamps(limiter'.accepted, other) = Stamps(limiter.accepted, other)
              /\ limiter'.last.allowed <=>
                    Cardinality({k \in DOMAIN Stamps(limiter.accepted, limiter'.last.client_id) :
                                    limiter.accepted[limiter'.last.client_id][k]
                                       > limiter.now - rate_limit_window}) < rate_limit_requests
      ]_vars

(* a client with twenty accepted calls at time 0 was refused at 30 while   *)
(* the other client was let through, and is let through again at 60        *)
Wit_C30 ==
    /\ limiter.now = rate_limit_window
    /\ limiter.last = [client_id |-> "10.0.0.1", allowed |-> TRUE]
    /\ Len(Stamps(limiter.accepted, "10.0.0.1")) = rate_limit_requests + 1
    /\ limiter.accepted["10.0.0.1"][rate_limit_requests] = 0
    /\ Stamps(limiter._rate_limits, "10.0.0.1") = <<rate_limit_window>>
    /\ Stamps(limiter.accepted, "10.0.0.2") = <<rate_limit_window \div 2>>
    /\ limiter.checks = MaxChecks

(* an upload whose expires_at has passed and that is still registered      *)
ExpiredUpload(id) ==
    /\ id \in DOMAIN registry._file_registry
    /\ id \in DOMAIN lifecycle.expires_at
    /\ lifecycle.now > lifecycle.expires_at[id]

(* C29: with the periodic cleanup task running, every uploaded file whose  *)
(* expires_at time has passed is eventually removed from the registry,     *)
(* whatever other entries the registry holds at the time of the sweep.     *)
Claim_C29 == \A id \in FileIds : ExpiredUpload(id) ~> (id \notin DOMAIN registry._file_registry)

====
